---- MODULE Spec2Model ----
(***************************************************************************)
(* A model of the Notion block/property synchronizer of                    *)
(* qa-pinecone-streamlit-app: libraries/common.py (retry_on_bad_response), *)
(* libraries/notion/models.py (NotionPageProperty, NotionBlock) and        *)
(* libraries/notion/notion_api.py (NotionAPI).                             *)
(*                                                                         *)
(* Python values are modelled as follows.                                  *)
(*   str    a sequence of one-character strings, so that str.lower() is    *)
(*          computed character by character;                               *)
(*   dict   a function whose domain is a set of such strings;              *)
(*   list   a sequence;                                                    *)
(*   object a function from attribute names to values, with the extra key  *)
(*          S_class naming its class (what isinstance() reads);            *)
(*   None   the value None.                                                *)
(* The module holds one specification per part of the program:             *)
(*   SpecTyping  classify / decode / encode          (models.py)           *)
(*   SpecRetry   the retry decorator                 (common.py)           *)
(*   SpecPages   _get_database_pages                 (notion_api.py)       *)
(*   SpecPagesFair  the same, running to its end      (notion_api.py)       *)
(*   SpecQuery   the same, with a refused query      (notion_api.py)       *)
(*   SpecLink    _set_bulleted_list_item_link        (notion_api.py)       *)
(*   SpecLocal   the same, with malformed answers    (notion_api.py)       *)
(*   SpecWire    _convert_block_to_json              (notion_api.py)       *)
(*   SpecStatus  _check_response                     (notion_api.py)       *)
(*   SpecTree    _get_all_children                   (notion_api.py)       *)
(*   SpecSend    update, append, create payloads     (notion_api.py)       *)
(***************************************************************************)
EXTENDS Integers, Sequences, FiniteSets, TLC

VARIABLES
    \* SpecTyping
    tPc,        \* "start", "classified", "decoded", "encoded", "raised"
    tTag,       \* the type-tag string given to the classifiers
    tKind,      \* "property" or "block": which class the record is decoded as
    tRecord,    \* the wire record given to the constructor
    tMember,    \* the enumeration member returned by the classifier
    tInstance,  \* the constructed NotionPageProperty / NotionBlock
    tEncoded,   \* the record returned by to_dict()
    tError,     \* the exception that left the constructor, or None
    \* SpecRetry
    rPc,        \* "try", "warn", "sleep", "exhausted", "returned", "raised"
    rResponses, \* the responses the service will give, in order
    rRequests,  \* number of requests sent so far (calls of the wrapped function)
    rLoop,      \* completed iterations of `for _ in range(3)`
    rError,     \* the wrapper's local `error`
    rOutcome,   \* what reached the caller: the value returned or the exception
    rEvents,    \* the calls, warnings and pauses so far, in order
    \* SpecPages
    pPc,        \* "loop", "returned", "raised"
    pService,   \* the database: the result list of each of its response pages
    pFailAt,    \* the number of the query the service answers with an error (0: none)
    pFailStatus, \* the status of that answer
    pPages,     \* the local dict `pages`
    pHasNext,   \* the local `has_next`
    pCursor,    \* the local `cursor`
    pQueries,   \* the payloads of the queries sent so far, in order
    pOutcome,   \* what reached the caller: the mapping or the exception (<<>> before)
    \* SpecWire
    wInput,     \* the NotionBlock as it was before the first conversion
    wBlock,     \* the NotionBlock now (the conversion assigns into its content)
    wOutputs,   \* the value of each conversion so far, as it was when returned
    \* SpecLink
    lPc,          \* "start", "scan", "update", "done", "raised"
    lChildren,    \* the block records the service lists under the page
    lGetFailures, \* number of 429 responses before the service answers the GET with 200
    lBodyResults, \* whether the body of that 200 response has its "results" key
    lGets,        \* number of GET requests sent
    lPauses,      \* number of calls of time.sleep
    lReplaceOnly, \* the argument replace_only_matched_text
    lNewBlock,    \* the local `new_block` handed to _update_block
    lUpdateCalls, \* number of calls of _update_block
    lAttempts,    \* failed attempts of the running _update_block call
    lPatches,     \* the PATCH requests sent so far, in order
    lOutcome,     \* the exception that reached the caller, or None
    \* SpecStatus
    sPc, \* "start", "checked"
    sResponse, \* the response handed to _check_response
    sChecked, \* what the call did: returned or raised an exception
    \* SpecTree
    gPc, \* "call", "loop", "returned", "raised"
    gService, \* the service: for each id the block records it lists under it
    gFailures, \* for each id the number of 429 responses before the service answers 200
    gCallee, \* the parent_id of the call of _get_all_children about to be made
    gStack, \* the running calls of _get_all_children: parent_id, children, loop index
    gFetches, \* the parent ids of the GET requests sent so far, in order
    gOutcome, \* what reached the caller: the list returned or the exception
    \* SpecSend
    nPc, \* "attempt", "done", "raised"
    nOperation, \* "update", "append" or "create": the operation that is called
    nBlock, \* the NotionBlock handed to the operation (a conversion assigns into its content)
    nAttempts, \* failed attempts of the call so far
    nPayloads, \* the json= argument of every request made so far, in order
    nOutcome  \* what reached the caller: the value returned or the exception

varsTyping == <<tPc, tTag, tKind, tRecord, tMember, tInstance, tEncoded, tError>>
varsRetry == <<rPc, rResponses, rRequests, rLoop, rError, rOutcome, rEvents>>
varsPages == <<pPc, pService, pFailAt, pFailStatus, pPages, pHasNext, pCursor, pQueries,
               pOutcome>>
varsWire == <<wInput, wBlock, wOutputs>>
varsLink == <<lPc, lChildren, lGetFailures, lBodyResults, lGets, lPauses,
              lReplaceOnly, lNewBlock, lUpdateCalls, lAttempts, lPatches, lOutcome>>
varsStatus == <<sPc, sResponse, sChecked>>
varsTree == <<gPc, gService, gFailures, gCallee, gStack, gFetches, gOutcome>>
varsSend == <<nPc, nOperation, nBlock, nAttempts, nPayloads, nOutcome>>

othersTyping == <<varsRetry, varsPages, varsWire, varsLink, varsStatus, varsTree, varsSend>>
othersRetry == <<varsTyping, varsPages, varsWire, varsLink, varsStatus, varsTree, varsSend>>
othersPages == <<varsTyping, varsRetry, varsWire, varsLink, varsStatus, varsTree, varsSend>>
othersWire == <<varsTyping, varsRetry, varsPages, varsLink, varsStatus, varsTree, varsSend>>
othersLink == <<varsTyping, varsRetry, varsPages, varsWire, varsStatus, varsTree, varsSend>>
othersStatus == <<varsTyping, varsRetry, varsPages, varsWire, varsLink, varsTree, varsSend>>
othersTree == <<varsTyping, varsRetry, varsPages, varsWire, varsLink, varsStatus, varsSend>>
othersSend == <<varsTyping, varsRetry, varsPages, varsWire, varsLink, varsStatus, varsTree>>

\* None, where a string may stand, and None where a dict may stand (two
\* values only because the model checker compares a value of one shape with
\* values of the same shape).
None == <<"None">>
NoneDict == (<<"None">> :> TRUE)

----------------------------------------------------------------------------
(* Strings.                                                                *)

UpperChars ==
    <<"A", "B", "C", "D", "E", "F", "G", "H", "I", "J", "K", "L", "M",
      "N", "O", "P", "Q", "R", "S", "T", "U", "V", "W", "X", "Y", "Z">>

LowerChars ==
    <<"a", "b", "c", "d", "e", "f", "g", "h", "i", "j", "k", "l", "m",
      "n", "o", "p", "q", "r", "s", "t", "u", "v", "w", "x", "y", "z">>

\* str.lower() on one character: an upper-case letter becomes its lower-case
\* letter, every other character is kept.
LowerChar(c) ==
    IF \E i \in 1..Len(UpperChars) : UpperChars[i] = c
    THEN LowerChars[CHOOSE i \in 1..Len(UpperChars) : UpperChars[i] = c]
    ELSE c

\* str.lower()
StrLower(s) == [i \in 1..Len(s) |-> LowerChar(s[i])]

\* str.upper() on one character and on a string (used to build inputs).
UpperChar(c) ==
    IF \E i \in 1..Len(LowerChars) : LowerChars[i] = c
    THEN UpperChars[CHOOSE i \in 1..Len(LowerChars) : LowerChars[i] = c]
    ELSE c

StrUpper(s) == [i \in 1..Len(s) |-> UpperChar(s[i])]

\* str.capitalize(): first character upper-case, the rest lower-case.
StrCapitalize(s) ==
    [i \in 1..Len(s) |-> IF i = 1 THEN UpperChar(s[i]) ELSE LowerChar(s[i])]

\* Every second character upper-case: a mixed-case spelling.
StrMixedCase(s) ==
    [i \in 1..Len(s) |-> IF i % 2 = 0 THEN UpperChar(s[i]) ELSE LowerChar(s[i])]

S_class == <<"__class__">>
S_type == <<"t", "y", "p", "e">>
S_object == <<"o", "b", "j", "e", "c", "t">>
S_id == <<"i", "d">>
S_has_children == <<"h", "a", "s", "_", "c", "h", "i", "l", "d", "r", "e", "n">>
S_children == <<"c", "h", "i", "l", "d", "r", "e", "n">>
S_cells == <<"c", "e", "l", "l", "s">>
S_text == <<"t", "e", "x", "t">>
S_plain_text == <<"p", "l", "a", "i", "n", "_", "t", "e", "x", "t">>
S_link == <<"l", "i", "n", "k">>
S_url == <<"u", "r", "l">>
S_title == <<"t", "i", "t", "l", "e">>
S_content == <<"c", "o", "n", "t", "e", "n", "t">>
S_properties == <<"p", "r", "o", "p", "e", "r", "t", "i", "e", "s">>
S_name == <<"n", "a", "m", "e">>
S_type_name == <<"t", "y", "p", "e", "_", "n", "a", "m", "e">>
S_results == <<"r", "e", "s", "u", "l", "t", "s">>
S_has_more == <<"h", "a", "s", "_", "m", "o", "r", "e">>
S_next_cursor == <<"n", "e", "x", "t", "_", "c", "u", "r", "s", "o", "r">>
S_start_cursor == <<"s", "t", "a", "r", "t", "_", "c", "u", "r", "s", "o", "r">>
S_page_size == <<"p", "a", "g", "e", "_", "s", "i", "z", "e">>
S_page == <<"p", "a", "g", "e">>
S_block == <<"b", "l", "o", "c", "k">>
S_paragraph == <<"p", "a", "r", "a", "g", "r", "a", "p", "h">>
S_table == <<"t", "a", "b", "l", "e">>
S_bulleted_list_item == <<"b", "u", "l", "l", "e", "t", "e", "d", "_", "l", "i", "s", "t", "_", "i", "t", "e", "m">>
S_database == <<"d", "a", "t", "a", "b", "a", "s", "e">>

----------------------------------------------------------------------------
(* models.py: the enumerations and the two classifiers.                    *)

\* class NotionPagePropertyType(Enum): the members in order of their values.
NotionPagePropertyType ==
    << [name |-> <<"S", "E", "L", "E", "C", "T">>, value |-> 1],
       [name |-> <<"P", "E", "O", "P", "L", "E">>, value |-> 2],
       [name |-> <<"R", "I", "C", "H", "_", "T", "E", "X", "T">>, value |-> 3],
       [name |-> <<"R", "E", "L", "A", "T", "I", "O", "N">>, value |-> 4],
       [name |-> <<"L", "A", "S", "T", "_", "E", "D", "I", "T", "E", "D", "_", "T", "I", "M", "E">>, value |-> 5],
       [name |-> <<"T", "I", "T", "L", "E">>, value |-> 6],
       [name |-> <<"O", "T", "H", "E", "R">>, value |-> 7],
       [name |-> <<"C", "R", "E", "A", "T", "E", "D", "_", "T", "I", "M", "E">>, value |-> 8],
       [name |-> <<"C", "R", "E", "A", "T", "E", "D", "_", "B", "Y">>, value |-> 9],
       [name |-> <<"D", "A", "T", "E">>, value |-> 10],
       [name |-> <<"F", "I", "L", "E", "S">>, value |-> 11],
       [name |-> <<"M", "U", "L", "T", "I", "_", "S", "E", "L", "E", "C", "T">>, value |-> 12] >>

\* class NotionBlockType(Enum): the members in order of their values.
NotionBlockType ==
    << [name |-> <<"P", "A", "R", "A", "G", "R", "A", "P", "H">>, value |-> 1],
       [name |-> <<"H", "E", "A", "D", "I", "N", "G", "_", "3">>, value |-> 2],
       [name |-> <<"H", "E", "A", "D", "I", "N", "G", "_", "2">>, value |-> 3],
       [name |-> <<"H", "E", "A", "D", "I", "N", "G", "_", "1">>, value |-> 4],
       [name |-> <<"B", "U", "L", "L", "E", "T", "E", "D", "_", "L", "I", "S", "T", "_", "I", "T", "E", "M">>, value |-> 5],
       [name |-> <<"C", "H", "I", "L", "D", "_", "D", "A", "T", "A", "B", "A", "S", "E">>, value |-> 6],
       [name |-> <<"D", "I", "V", "I", "D", "E", "R">>, value |-> 7],
       [name |-> <<"O", "T", "H", "E", "R">>, value |-> 8],
       [name |-> <<"C", "O", "L", "U", "M", "N", "_", "L", "I", "S", "T">>, value |-> 9],
       [name |-> <<"T", "A", "B", "L", "E">>, value |-> 10],
       [name |-> <<"T", "A", "B", "L", "E", "_", "R", "O", "W">>, value |-> 11] >>

\* The if/elif chain of NotionPageProperty._determine_property_type: the
\* literal each branch compares with and the member it returns.
PropertyTypeChain ==
    << [literal |-> <<"s", "e", "l", "e", "c", "t">>,
        member |-> <<"S", "E", "L", "E", "C", "T">>],
       [literal |-> <<"p", "e", "o", "p", "l", "e">>,
        member |-> <<"P", "E", "O", "P", "L", "E">>],
       [literal |-> <<"r", "i", "c", "h", "_", "t", "e", "x", "t">>,
        member |-> <<"R", "I", "C", "H", "_", "T", "E", "X", "T">>],
       [literal |-> <<"r", "e", "l", "a", "t", "i", "o", "n">>,
        member |-> <<"R", "E", "L", "A", "T", "I", "O", "N">>],
       [literal |-> <<"l", "a", "s", "t", "_", "e", "d", "i", "t", "e", "d", "_", "t", "i", "m", "e">>,
        member |-> <<"L", "A", "S", "T", "_", "E", "D", "I", "T", "E", "D", "_", "T", "I", "M", "E">>],
       [literal |-> <<"t", "i", "t", "l", "e">>,
        member |-> <<"T", "I", "T", "L", "E">>],
       [literal |-> <<"c", "r", "e", "a", "t", "e", "d", "_", "t", "i", "m", "e">>,
        member |-> <<"C", "R", "E", "A", "T", "E", "D", "_", "T", "I", "M", "E">>],
       [literal |-> <<"c", "r", "e", "a", "t", "e", "d", "_", "b", "y">>,
        member |-> <<"C", "R", "E", "A", "T", "E", "D", "_", "B", "Y">>],
       [literal |-> <<"d", "a", "t", "e">>,
        member |-> <<"D", "A", "T", "E">>],
       [literal |-> <<"f", "i", "l", "e", "s">>,
        member |-> <<"F", "I", "L", "E", "S">>],
       [literal |-> <<"m", "u", "l", "t", "i", "_", "s", "e", "l", "e", "c", "t">>,
        member |-> <<"M", "U", "L", "T", "I", "_", "S", "E", "L", "E", "C", "T">>] >>

\* The if/elif chain of NotionBlock._determine_block_type.
BlockTypeChain ==
    << [literal |-> <<"p", "a", "r", "a", "g", "r", "a", "p", "h">>,
        member |-> <<"P", "A", "R", "A", "G", "R", "A", "P", "H">>],
       [literal |-> <<"h", "e", "a", "d", "i", "n", "g", "_", "3">>,
        member |-> <<"H", "E", "A", "D", "I", "N", "G", "_", "3">>],
       [literal |-> <<"h", "e", "a", "d", "i", "n", "g", "_", "2">>,
        member |-> <<"H", "E", "A", "D", "I", "N", "G", "_", "2">>],
       [literal |-> <<"h", "e", "a", "d", "i", "n", "g", "_", "1">>,
        member |-> <<"H", "E", "A", "D", "I", "N", "G", "_", "1">>],
       [literal |-> <<"b", "u", "l", "l", "e", "t", "e", "d", "_", "l", "i", "s", "t", "_", "i", "t", "e", "m">>,
        member |-> <<"B", "U", "L", "L", "E", "T", "E", "D", "_", "L", "I", "S", "T", "_", "I", "T", "E", "M">>],
       [literal |-> <<"c", "h", "i", "l", "d", "_", "d", "a", "t", "a", "b", "a", "s", "e">>,
        member |-> <<"C", "H", "I", "L", "D", "_", "D", "A", "T", "A", "B", "A", "S", "E">>],
       [literal |-> <<"d", "i", "v", "i", "d", "e", "r">>,
        member |-> <<"D", "I", "V", "I", "D", "E", "R">>],
       [literal |-> <<"c", "o", "l", "u", "m", "n", "_", "l", "i", "s", "t">>,
        member |-> <<"C", "O", "L", "U", "M", "N", "_", "L", "I", "S", "T">>],
       [literal |-> <<"t", "a", "b", "l", "e">>,
        member |-> <<"T", "A", "B", "L", "E">>],
       [literal |-> <<"t", "a", "b", "l", "e", "_", "r", "o", "w">>,
        member |-> <<"T", "A", "B", "L", "E", "_", "R", "O", "W">>] >>

S_OTHER == <<"O", "T", "H", "E", "R">>

\* The member of an enumeration with the given name.
EnumMember(enum, name) ==
    enum[CHOOSE i \in 1..Len(enum) : enum[i].name = name]

\* The first branch of an if/elif chain whose literal equals s; 0 when the
\* chain falls through to its else branch.
FirstBranch(chain, s) ==
    IF \E i \in 1..Len(chain) : chain[i].literal = s
    THEN CHOOSE i \in 1..Len(chain) :
            /\ chain[i].literal = s
            /\ \A j \in 1..(i - 1) : chain[j].literal # s
    ELSE 0

\* NotionPageProperty._determine_property_type
DeterminePropertyType(type_name) ==
    LET i == FirstBranch(PropertyTypeChain, StrLower(type_name))
    IN  IF i = 0
        THEN EnumMember(NotionPagePropertyType, S_OTHER)
        ELSE EnumMember(NotionPagePropertyType, PropertyTypeChain[i].member)

\* A classifier that compares the tag as given, without lower-casing it.
DetermineBlockTypeCaseSensitive(type_name) ==
    LET i == FirstBranch(BlockTypeChain, type_name)
    IN  IF i = 0
        THEN EnumMember(NotionBlockType, S_OTHER)
        ELSE EnumMember(NotionBlockType, BlockTypeChain[i].member)

\* NotionBlock._determine_block_type
DetermineBlockType(type_name) ==
    LET i == FirstBranch(BlockTypeChain, StrLower(type_name))
    IN  IF i = 0
        THEN EnumMember(NotionBlockType, S_OTHER)
        ELSE EnumMember(NotionBlockType, BlockTypeChain[i].member)

----------------------------------------------------------------------------
(* models.py: construction from a wire record (decode) and to_dict()       *)
(* (encode).  A call either returns a value or raises an exception.        *)

Return(v) == [raised |-> FALSE, value |-> v]
Raise(e) == [raised |-> TRUE, value |-> e]

\* dict[key] on a missing key
KeyError(key) == [exc |-> "KeyError", arg |-> key]

\* NotionPageProperty.__init__
NotionPagePropertyInit(name, property_dict) ==
    IF S_type \notin DOMAIN property_dict THEN Raise(KeyError(S_type))
    ELSE LET type_name == property_dict[S_type] IN
         IF type_name \notin DOMAIN property_dict THEN Raise(KeyError(type_name))
         ELSE Return((S_class :> "NotionPageProperty")
                     @@ (S_name :> name)
                     @@ (S_type_name :> type_name)
                     @@ (S_type :> DeterminePropertyType(type_name))
                     @@ (S_content :> property_dict[type_name])
                     @@ (S_children :> <<>>))

\* A to_dict() that re-wraps the content under the lower-cased tag.
NotionPagePropertyToDictLowered(self) ==
    (StrLower(self[S_type_name]) :> self[S_content])
    @@ (S_type :> StrLower(self[S_type_name]))

\* NotionPageProperty.to_dict: {"type": type_name, type_name: content}; of two
\* equal keys in a dict display the later one wins.
NotionPagePropertyToDict(self) ==
    (self[S_type_name] :> self[S_content]) @@ (S_type :> self[S_type_name])

\* NotionBlock.__init__: the keys are read in the order object, id, type,
\* <type>, has_children.
NotionBlockInit(block_dict) ==
    IF S_object \notin DOMAIN block_dict THEN Raise(KeyError(S_object))
    ELSE IF S_id \notin DOMAIN block_dict THEN Raise(KeyError(S_id))
    ELSE IF S_type \notin DOMAIN block_dict THEN Raise(KeyError(S_type))
    ELSE LET type_name == block_dict[S_type] IN
         IF type_name \notin DOMAIN block_dict THEN Raise(KeyError(type_name))
         ELSE IF S_has_children \notin DOMAIN block_dict
         THEN Raise(KeyError(S_has_children))
         ELSE Return((S_class :> "NotionBlock")
                     @@ (S_object :> block_dict[S_object])
                     @@ (S_id :> block_dict[S_id])
                     @@ (S_type_name :> type_name)
                     @@ (S_type :> DetermineBlockType(type_name))
                     @@ (S_content :> block_dict[type_name])
                     @@ (S_has_children :> block_dict[S_has_children]))

\* NotionBlock.to_dict: {"object": object, "type": type_name, type_name: content}
NotionBlockToDict(self) ==
    (self[S_type_name] :> self[S_content])
    @@ (S_type :> self[S_type_name])
    @@ (S_object :> self[S_object])

\* isinstance(x, NotionBlock)
IsNotionBlock(x) == S_class \in DOMAIN x /\ x[S_class] = "NotionBlock"

----------------------------------------------------------------------------
(* SpecTyping: a type tag is classified; a wire record is decoded and the  *)
(* instance encoded again.                                                 *)

\* The literals of the two chains, and strings neither chain knows.
RecognizedLiterals ==
    {PropertyTypeChain[i].literal : i \in 1..Len(PropertyTypeChain)}
    \cup {BlockTypeChain[i].literal : i \in 1..Len(BlockTypeChain)}

UnrecognizedTags ==
    { <<>>,
      <<"c", "a", "l", "l", "o", "u", "t">>,
      <<"C", "a", "l", "l", "o", "u", "t">>,
      <<"o", "t", "h", "e", "r">>,
      <<"h", "e", "a", "d", "i", "n", "g", "_", "4">>,
      <<"t", "a", "b", "l", "e", " ", "r", "o", "w">>,
      <<"s", "e", "l", "e", "c">>,
      <<"D", "A", "T", "E", "S">> }

\* Every recognized literal in four spellings, and the unrecognized tags.
TagInputs ==
    UNION { {s, StrUpper(s), StrCapitalize(s), StrMixedCase(s)} :
            s \in RecognizedLiterals }
    \cup UnrecognizedTags

\* Payloads of a minimal record: no children, no cells.
Payloads ==
    { (S_name :> <<"A">>), (S_url :> <<"h", "t", "t", "p">>) }

\* The fields of a block record besides its type tag and payload.
BlockFields ==
    (S_object :> S_block) @@ (S_id :> <<"b", "1">>) @@ (S_has_children :> FALSE)

\* The fields of a property record besides its type tag and payload.
PropertyFields == (S_id :> <<"%", "7", "B">>)

\* The records built around a tag: well-formed, without the type-tag field,
\* without the payload field, and with the payload under the lower-cased tag.
RecordsFor(kind, tag) ==
    LET rest == IF kind = "block" THEN BlockFields ELSE PropertyFields IN
    UNION { { (S_type :> tag) @@ (tag :> p) @@ rest,
              (tag :> p) @@ rest,
              (S_type :> tag) @@ rest,
              (S_type :> tag) @@ (StrLower(tag) :> p) @@ rest } : p \in Payloads }

InitTypingVars ==
    /\ tPc = "start"
    /\ tTag \in TagInputs
    /\ tKind \in {"property", "block"}
    /\ tRecord \in RecordsFor(tKind, tTag)
    /\ tMember = None
    /\ tInstance = None
    /\ tEncoded = None
    /\ tError = None

\* classify, for a property type tag
ClassifyProperty ==
    /\ tPc = "start"
    /\ tKind = "property"
    /\ tMember' = DeterminePropertyType(tTag)
    /\ tPc' = "classified"
    /\ UNCHANGED <<tTag, tKind, tRecord, tInstance, tEncoded, tError>>
    /\ UNCHANGED othersTyping

\* classify, for a block type tag
ClassifyBlock ==
    /\ tPc = "start"
    /\ tKind = "block"
    /\ tMember' = DetermineBlockType(tTag)
    /\ tPc' = "classified"
    /\ UNCHANGED <<tTag, tKind, tRecord, tInstance, tEncoded, tError>>
    /\ UNCHANGED othersTyping

\* decode: the constructor of the record's class
Decode ==
    /\ tPc = "start"
    /\ LET r == IF tKind = "property"
                THEN NotionPagePropertyInit(S_name, tRecord)
                ELSE NotionBlockInit(tRecord)
       IN  IF r.raised
           THEN /\ tPc' = "raised"
                /\ tError' = r.value
                /\ UNCHANGED tInstance
           ELSE /\ tPc' = "decoded"
                /\ tInstance' = r.value
                /\ UNCHANGED tError
    /\ UNCHANGED <<tTag, tKind, tRecord, tMember, tEncoded>>
    /\ UNCHANGED othersTyping

\* encode: to_dict() of the decoded instance
Encode ==
    /\ tPc = "decoded"
    /\ tEncoded' = IF tKind = "property"
                   THEN NotionPagePropertyToDict(tInstance)
                   ELSE NotionBlockToDict(tInstance)
    /\ tPc' = "encoded"
    /\ UNCHANGED <<tTag, tKind, tRecord, tMember, tInstance, tError>>
    /\ UNCHANGED othersTyping

NextTyping == ClassifyProperty \/ ClassifyBlock \/ Decode \/ Encode

----------------------------------------------------------------------------
(* sso_core/exceptions.py and NotionAPI._check_response.                   *)

\* BadRequestException and its subclasses: what `except BadRequestException`
\* catches.
BadRequestFamily ==
    { "BadRequestException", "BadPayloadException", "ExceededRateLimitException",
      "UnauthorizedException", "ServerSideException" }

\* BadRequestException.__init__, inherited by every subclass
BadRequest(class, message, status_code) ==
    [exc |-> class, message |-> message, status_code |-> status_code]

\* A clause that catches every exception.
IsException(e) == e.exc = e.exc

\* except BadRequestException
IsBadRequest(e) == e.exc \in BadRequestFamily

\* A check that raises the generic error for every status other than 200.
CheckResponseGeneric(response) ==
    IF response.status_code # 200
    THEN Raise(BadRequest("BadRequestException",
                          <<"Notion API returned error: ", response.text>>,
                          response.status_code))
    ELSE Return(None)

\* NotionAPI._check_response; each message is its fixed prefix followed by
\* response.text.
CheckResponse(response) ==
    LET code == response.status_code IN
    IF code = 429 THEN
        Raise(BadRequest("ExceededRateLimitException",
                         <<"Notion API exceeded rate limit: ", response.text>>, code))
    ELSE IF code = 400 THEN
        Raise(BadRequest("BadPayloadException",
                         <<"Notion API determined bad payload. Possibly exceeded size limit: ",
                           response.text>>, code))
    ELSE IF code \in {401, 403} THEN
        Raise(BadRequest("UnauthorizedException",
                         <<"Notion API sent unauthorized: ", response.text>>, code))
    ELSE IF code >= 500 THEN
        Raise(BadRequest("ServerSideException",
                         <<"Notion API server error: ", response.text>>, code))
    ELSE IF code # 200 THEN
        Raise(BadRequest("BadRequestException",
                         <<"Notion API returned error: ", response.text>>, code))
    ELSE Return(None)

\* NotionAPI._get_block_children without its decorator, given the response
\* to its GET request: _check_response, then response.json()["results"].
GetBlockChildrenBody(response) ==
    LET checked == CheckResponse(response) IN
    IF checked.raised THEN checked
    ELSE IF S_results \notin DOMAIN response.json THEN Raise(KeyError(S_results))
    ELSE Return(response.json[S_results])

----------------------------------------------------------------------------
(* SpecStatus: one call of NotionAPI._check_response on a response of any  *)
(* status.                                                                 *)

\* The statuses a response can carry: MinStatus..MaxStatus.
MinStatus == 100
MaxStatus == 599

\* The responses handed to _check_response.
StatusResponses ==
    { [status_code |-> code, text |-> <<"#", "b", "o", "d", "y">>] :
        code \in MinStatus..MaxStatus }

InitStatusVars ==
    /\ sPc = "start"
    /\ sResponse \in StatusResponses
    /\ sChecked = None

\* self._check_response(response)
CheckStatus ==
    /\ sPc = "start"
    /\ sChecked' = CheckResponse(sResponse)
    /\ sPc' = "checked"
    /\ UNCHANGED sResponse
    /\ UNCHANGED othersStatus

NextStatus == CheckStatus

----------------------------------------------------------------------------
(* SpecRetry: common.py, retry_on_bad_response, wrapped around             *)
(* _get_block_children, against a service whose responses are fixed in     *)
(* advance.                                                                *)

\* A loop that allows one attempt more.
MaxAttemptsFour == 3 + 1

\* range(3) in the wrapper
MaxAttempts == 3

\* time.sleep(30) in the wrapper
RetryPauseSeconds == 30

\* Number of responses the service has ready; one more than the wrapper can
\* consume.
MaxResponses == 4

Digits == <<"1", "2", "3", "4", "5", "6", "7", "8", "9">>

\* The statuses the service answers with in SpecRetry.
RetryStatuses == {200, 400, 403, 404, 429, 500}

\* The i-th response of the service: a status, a body text that names the
\* response, and the decoded body.  A 200 body is a list result or, when
\* malformed, lacks its "results" key.
ResponsesAt(i) ==
    LET text == <<"#", Digits[i]>> IN
    { [status_code |-> c, text |-> text,
       json |-> IF c = 200 THEN (S_results :> <<>>) @@ (S_object :> text)
                ELSE (S_object :> text)] : c \in RetryStatuses }
    \cup { [status_code |-> 200, text |-> text, json |-> (S_object :> text)] }

InitRetryVars ==
    /\ rPc = "try"
    /\ rResponses \in { r \in [1..MaxResponses -> UNION {ResponsesAt(i) : i \in 1..MaxResponses}] :
                           \A i \in 1..MaxResponses : r[i] \in ResponsesAt(i) }
    /\ rRequests = 0
    /\ rLoop = 0
    /\ rError = None
    /\ rOutcome = None
    /\ rEvents = <<>>

\* `return func(*args, **kwargs)` inside the try: one call of the wrapped
\* function.  Its value is returned, a BadRequestException is caught and
\* bound to `error`, any other exception leaves the wrapper.
RetryAttempt ==
    /\ rPc = "try"
    /\ rRequests < Len(rResponses)
    /\ LET r == GetBlockChildrenBody(rResponses[rRequests + 1]) IN
       /\ rRequests' = rRequests + 1
       /\ rEvents' = Append(rEvents, <<"call", rRequests + 1>>)
       /\ IF ~r.raised
          THEN rPc' = "returned" /\ rOutcome' = r.value /\ UNCHANGED rError
          ELSE IF IsBadRequest(r.value)
          THEN rPc' = "warn" /\ rError' = r.value /\ UNCHANGED rOutcome
          ELSE rPc' = "raised" /\ rOutcome' = r.value /\ UNCHANGED rError
    /\ UNCHANGED <<rResponses, rLoop>>
    /\ UNCHANGED othersRetry

\* print(f"Received bad response ({error.status_code}): ...")
RetryWarn ==
    /\ rPc = "warn"
    /\ rEvents' = Append(rEvents, <<"warning", rError.status_code>>)
    /\ rPc' = "sleep"
    /\ UNCHANGED <<rResponses, rRequests, rLoop, rError, rOutcome>>
    /\ UNCHANGED othersRetry

\* time.sleep(30), then the next iteration of the for loop, if any
RetrySleep ==
    /\ rPc = "sleep"
    /\ rEvents' = Append(rEvents, <<"sleep", RetryPauseSeconds>>)
    /\ rLoop' = rLoop + 1
    /\ rPc' = IF rLoop + 1 < MaxAttempts THEN "try" ELSE "exhausted"
    /\ UNCHANGED <<rResponses, rRequests, rError, rOutcome>>
    /\ UNCHANGED othersRetry

\* `raise error` after the loop
RetryReraise ==
    /\ rPc = "exhausted"
    /\ rOutcome' = rError
    /\ rPc' = "raised"
    /\ UNCHANGED <<rResponses, rRequests, rLoop, rError, rEvents>>
    /\ UNCHANGED othersRetry

NextRetry == RetryAttempt \/ RetryWarn \/ RetrySleep \/ RetryReraise

----------------------------------------------------------------------------
(* NotionAPI._get_block_children under its decorator.                      *)

\* The decorated _get_block_children, given the responses the service gives
\* to its successive GET requests: attempt i returns its value, lets an
\* exception outside the bad-request family through, and after a
\* bad-request error warns, sleeps and goes on to attempt i + 1 or, at the
\* last attempt, raises that error.  `requests` is the number of requests
\* sent and `pauses` the number of calls of time.sleep.
RECURSIVE GetBlockChildrenFrom(_, _)
GetBlockChildrenFrom(responses, i) ==
    LET r == GetBlockChildrenBody(responses[i]) IN
    IF r.raised /\ IsBadRequest(r.value)
    THEN IF i < MaxAttempts
         THEN GetBlockChildrenFrom(responses, i + 1)
         ELSE [outcome |-> r, requests |-> i, pauses |-> i]
    ELSE [outcome |-> r, requests |-> i, pauses |-> i - 1]

GetBlockChildren(responses) == GetBlockChildrenFrom(responses, 1)

----------------------------------------------------------------------------
(* SpecPages: NotionAPI._get_database_pages against a database whose       *)
(* response pages are fixed in advance.                                    *)

\* "page_size": 100 in the query payload
QueryPageSize == 100

\* Largest number of response pages of the database.
MaxPages == 3

\* The two title keys: "Name" behind a byte-order mark (U+FEFF), and "Name".
S_BOM_Name == <<"U+FEFF", "N", "a", "m", "e">>
S_Name == <<"N", "a", "m", "e">>

S_Spec_A == <<"S", "p", "e", "c", " ", "A">>
S_Spec_B == <<"S", "p", "e", "c", " ", "B">>

\* list[0] on an empty list
IndexError == [exc |-> "IndexError", arg |-> 0]

\* A title property holding the given texts, one text run each.
TitleProperty(texts) ==
    (S_type :> S_title)
    @@ (S_title :> [k \in 1..Len(texts) |-> (S_text :> (S_content :> texts[k]))])

\* What a record holds under a title key: nothing, a title without text runs
\* (an untitled page), or a title with one run.
TitleStates == {"absent", "empty", "text"}

\* The shapes of the records of a query result: a page with each title key in
\* one of its states, or an object that is no page.
ItemKinds ==
    [object : {S_page}, bom : TitleStates, name : TitleStates]
    \cup { [object |-> S_database, bom |-> "absent", name |-> "absent"] }

PageKind(bom, name) == [object |-> S_page, bom |-> bom, name |-> name]

\* The record of shape kind that is the j-th result of response page i.
ItemAt(kind, i, j) ==
    LET bomPart == IF kind.bom = "absent" THEN <<>>
                   ELSE (S_BOM_Name :> TitleProperty(IF kind.bom = "empty" THEN <<>>
                                                     ELSE <<S_Spec_A>>))
        namePart == IF kind.name = "absent" THEN <<>>
                    ELSE (S_Name :> TitleProperty(IF kind.name = "empty" THEN <<>>
                                                  ELSE <<S_Spec_B>>))
    IN  (S_object :> kind.object)
        @@ (S_id :> <<"p", Digits[i], Digits[j]>>)
        @@ (S_properties :> (bomPart @@ namePart))

\* The result lists of one response page, by the shapes of their records: the
\* empty list, every single record, and some lists of two records.
ResultShapes ==
    { <<>> }
    \cup { <<k>> : k \in ItemKinds }
    \cup { <<PageKind("text", "absent"), PageKind("absent", "text")>>,
           <<PageKind("absent", "text"),
             [object |-> S_database, bom |-> "absent", name |-> "absent"]>>,
           <<[object |-> S_database, bom |-> "absent", name |-> "absent"],
             PageKind("text", "absent")>>,
           <<PageKind("text", "absent"), PageKind("absent", "absent")>>,
           <<PageKind("absent", "absent"), PageKind("text", "absent")>>,
           <<PageKind("text", "text"), PageKind("absent", "empty")>> }

\* The database whose response pages hold result lists of the given shapes.
DatabaseOf(shapes) ==
    [i \in 1..Len(shapes) |-> [j \in 1..Len(shapes[i]) |-> ItemAt(shapes[i][j], i, j)]]

\* The cursor the service hands out for its response page i.
Cursor(i) == <<"c", "u", "r", Digits[i]>>

\* POST databases/{id}/query as the service answers it: the response page the
\* start_cursor names (the first page without one), has_more while a page
\* follows, and then the cursor of that page as next_cursor.
DatabaseQueryResponse(service, payload) ==
    LET i == IF S_start_cursor \in DOMAIN payload
             THEN CHOOSE k \in 1..Len(service) : Cursor(k) = payload[S_start_cursor]
             ELSE 1
    IN  [status_code |-> 200,
         json |-> (S_results :> service[i])
                  @@ (S_has_more :> (i < Len(service)))
                  @@ (S_next_cursor :> IF i < Len(service) THEN Cursor(i + 1) ELSE None)]

\* The answer of the service to a query it refuses: the status and an error
\* object as body.
DatabaseQueryError(status) ==
    [status_code |-> status,
     json |-> (S_object :> <<"e", "r", "r", "o", "r">>)
              @@ (<<"s", "t", "a", "t", "u", "s">> :> status)]

\* item["properties"][key]["title"][0]["text"]["content"]
TitleLookup(item, key) ==
    IF S_properties \notin DOMAIN item THEN Raise(KeyError(S_properties))
    ELSE IF key \notin DOMAIN item[S_properties] THEN Raise(KeyError(key))
    ELSE LET prop == item[S_properties][key] IN
         IF S_title \notin DOMAIN prop THEN Raise(KeyError(S_title))
         ELSE IF Len(prop[S_title]) = 0 THEN Raise(IndexError)
         ELSE LET first == prop[S_title][1] IN
              IF S_text \notin DOMAIN first THEN Raise(KeyError(S_text))
              ELSE IF S_content \notin DOMAIN first[S_text]
              THEN Raise(KeyError(S_content))
              ELSE Return(first[S_text][S_content])

\* The try/except of the loop body: the BOM-prefixed key, and on a KeyError
\* (only) the clean key.
ExtractTitle(item) ==
    LET first == TitleLookup(item, S_BOM_Name) IN
    IF first.raised /\ first.value.exc = "KeyError"
    THEN TitleLookup(item, S_Name)
    ELSE first

\* dict[key] = value
DictSet(d, key, value) == (key :> value) @@ d

\* `for item in results:` from the k-th result on: records that are no page
\* are skipped, a page is stored under its id with its title added, and an
\* exception of the title extraction leaves the loop.
RECURSIVE StoreResults(_, _, _)
StoreResults(results, k, pages) ==
    IF k > Len(results) THEN Return(pages)
    ELSE LET item == results[k] IN
         IF item[S_object] # S_page THEN StoreResults(results, k + 1, pages)
         ELSE LET title == ExtractTitle(item) IN
              IF title.raised THEN title
              ELSE StoreResults(results, k + 1,
                                DictSet(pages, item[S_id],
                                        DictSet(item, S_title, title.value)))

\* `if cursor:`
CursorIsTruthy(cursor) == cursor # None /\ cursor # <<>>

\* A service that is always taken to report more results.
HasMoreAlways(response_data) == TRUE

\* response_data.get("has_more"), as `if` and `while` read it
HasMore(response_data) ==
    S_has_more \in DOMAIN response_data /\ response_data[S_has_more] = TRUE

\* A payload that never carries the cursor.
QueryPayloadWithoutCursor(cursor) == (S_page_size :> QueryPageSize)

\* The payload of one query: the page size and, after the first response,
\* the cursor.
QueryPayload(cursor) ==
    IF CursorIsTruthy(cursor)
    THEN (S_start_cursor :> cursor) @@ (S_page_size :> QueryPageSize)
    ELSE (S_page_size :> QueryPageSize)

\* The databases: 1..MaxPages response pages, each of any shape.
InitPagesVars ==
    /\ pPc = "loop"
    /\ \E n \in 1..MaxPages : \E shapes \in [1..n -> ResultShapes] :
          pService = DatabaseOf(shapes)
    /\ pFailAt = 0
    /\ pFailStatus = 200
    /\ pPages = <<>>
    /\ pHasNext = TRUE
    /\ pCursor = None
    /\ pQueries = <<>>
    /\ pOutcome = <<>>

\* One iteration of `while has_next:`: the query, whose response is decoded
\* whatever its status, the loop over its results, and the update of has_next
\* and cursor.
FetchIteration ==
    /\ pPc = "loop"
    /\ pHasNext
    /\ LET payload == QueryPayload(pCursor)
           response == IF Len(pQueries) + 1 = pFailAt
                       THEN DatabaseQueryError(pFailStatus)
                       ELSE DatabaseQueryResponse(pService, payload)
           response_data == response.json
           stored == IF S_results \notin DOMAIN response_data
                     THEN Raise(KeyError(S_results))
                     ELSE StoreResults(response_data[S_results], 1, pPages)
       IN  /\ pQueries' = Append(pQueries, payload)
           /\ IF stored.raised
              THEN /\ pPc' = "raised"
                   /\ pOutcome' = stored.value
                   /\ UNCHANGED <<pPages, pHasNext, pCursor>>
              ELSE /\ pPages' = stored.value
                   /\ pHasNext' = HasMore(response_data)
                   /\ pCursor' = IF HasMore(response_data)
                                 THEN response_data[S_next_cursor]
                                 ELSE pCursor
                   /\ UNCHANGED <<pPc, pOutcome>>
    /\ UNCHANGED <<pService, pFailAt, pFailStatus>>
    /\ UNCHANGED othersPages

\* `return pages` once has_next is false
FetchReturn ==
    /\ pPc = "loop"
    /\ ~pHasNext
    /\ pOutcome' = pPages
    /\ pPc' = "returned"
    /\ UNCHANGED <<pService, pFailAt, pFailStatus, pPages, pHasNext, pCursor, pQueries>>
    /\ UNCHANGED othersPages

NextPages == FetchIteration \/ FetchReturn

----------------------------------------------------------------------------
(* SpecQuery: _get_database_pages against a database that answers one of   *)
(* the queries with an error status.                                       *)

\* The statuses of the refused query.
QueryFailureStatuses == {400, 401, 404, 429, 500}

\* The result lists of SpecQuery: the empty list and one titled page record.
QueryResultShapes == { <<>>, <<PageKind("text", "absent")>> }

InitQueryVars ==
    /\ pPc = "loop"
    /\ \E n \in 1..MaxPages : \E shapes \in [1..n -> QueryResultShapes] :
          pService = DatabaseOf(shapes)
    /\ pFailAt \in 1..MaxPages
    /\ pFailStatus \in QueryFailureStatuses
    /\ pPages = <<>>
    /\ pHasNext = TRUE
    /\ pCursor = None
    /\ pQueries = <<>>
    /\ pOutcome = <<>>

----------------------------------------------------------------------------
(* NotionAPI._convert_block_to_json.                                       *)

\* NotionAPI._convert_block_to_json.  The value is the dict returned and the
\* block as the call leaves it, since the call assigns into block.content.
\* The one list `children` is created before the loop over the two keys: the
\* converted elements of "children" and then those of "cells" are appended to
\* it, and it is assigned to each key that exists, so that both keys end up
\* holding the same list.  A missing key raises KeyError before anything is
\* appended or assigned for it, and suppress(KeyError) drops it.
RECURSIVE ConvertBlockToJson(_)
ConvertBlockToJson(block) ==
    LET content == block[S_content]
        \* `if isinstance(child, NotionBlock): child = self._convert_block_to_json(child)`
        \* for every child of a list
        Converted(list) ==
            [k \in 1..Len(list) |->
                IF IsNotionBlock(list[k]) THEN ConvertBlockToJson(list[k]).json
                ELSE list[k]]
        \* block.content.get("children"): the key is present and its list
        \* is not empty
        entered == S_children \in DOMAIN content /\ content[S_children] # <<>>
        fromChildren == Converted(content[S_children])
        hasCells == S_cells \in DOMAIN content
        children == IF hasCells
                    THEN fromChildren \o Converted(content[S_cells])
                    ELSE fromChildren
        newContent ==
            IF ~entered THEN content
            ELSE IF hasCells
            THEN [content EXCEPT ![S_children] = children, ![S_cells] = children]
            ELSE [content EXCEPT ![S_children] = children]
        after == [block EXCEPT ![S_content] = newContent]
    IN  [json |-> NotionBlockToDict(after), block |-> after]

----------------------------------------------------------------------------
(* SpecWire: _convert_block_to_json applied, repeatedly, to one block.     *)

\* Largest number of elements of a `children` or `cells` list.
MaxElements == 2

\* Number of times the conversion is applied to the block.
MaxConversions == 2

\* A wire record of a paragraph block without children; the label is the
\* plain text of its one text run.
LeafRecord(label) ==
    (S_object :> S_block)
    @@ (S_id :> label)
    @@ (S_type :> S_paragraph)
    @@ (S_paragraph :> (S_text :> << (S_plain_text :> label) >>))
    @@ (S_has_children :> FALSE)

\* An assignment that is lost.
WithContentKeyDropped(block, key, list) == block

\* child.content["children"] = ... as _get_all_children attaches a list
WithContentKey(block, key, list) ==
    [block EXCEPT ![S_content] = DictSet(block[S_content], key, list)]

\* The shapes an element of a list can have: a NotionBlock without children,
\* an already converted wire record, and a NotionBlock that itself holds a
\* NotionBlock under "children".
ElementKinds == {"block", "wire", "nested"}

ElementOf(kind, label) ==
    LET leaf == NotionBlockInit(LeafRecord(label)).value IN
    CASE kind = "block" -> leaf
      [] kind = "wire" -> NotionBlockToDict(leaf)
      [] kind = "nested" ->
            WithContentKey(leaf, S_children,
                           << NotionBlockInit(LeafRecord(label \o <<".", "1">>)).value >>)

\* The lists of up to MaxElements elements; the labels name the collection
\* (prefix) and the position.
ElementLists(prefix) ==
    UNION { { [k \in 1..n |-> ElementOf(kinds[k], <<prefix, Digits[k]>>)] :
              kinds \in [1..n -> ElementKinds] } : n \in 0..MaxElements }

\* A table block record, the parent of the lists.
TableRecord ==
    (S_object :> S_block)
    @@ (S_id :> <<"t", "1">>)
    @@ (S_type :> S_table)
    @@ (S_table :> (S_text :> <<>>))
    @@ (S_has_children :> TRUE)

\* The blocks: the table block with no list, with "children", with "cells",
\* or with both.
WireInputs ==
    LET table == NotionBlockInit(TableRecord).value IN
    { table }
    \cup { WithContentKey(table, S_children, c) : c \in ElementLists("c") }
    \cup { WithContentKey(table, S_cells, x) : x \in ElementLists("x") }
    \cup { WithContentKey(WithContentKey(table, S_children, c), S_cells, x) :
           c \in ElementLists("c"), x \in ElementLists("x") }

InitWireVars ==
    /\ wInput \in WireInputs
    /\ wBlock = wInput
    /\ wOutputs = <<>>

\* One call of _convert_block_to_json(block)
Convert ==
    /\ wBlock # None
    /\ Len(wOutputs) < MaxConversions
    /\ LET r == ConvertBlockToJson(wBlock) IN
       /\ wOutputs' = Append(wOutputs, r.json)
       /\ wBlock' = r.block
    /\ UNCHANGED wInput
    /\ UNCHANGED othersWire

NextWire == Convert

----------------------------------------------------------------------------
(* SpecSend: one call of _update_block, _append_children_to_object or      *)
(* _create_new_page_under_database with a block that holds lists of        *)
(* elements under "children" and "cells".                                  *)

S_parent == <<"p", "a", "r", "e", "n", "t">>
S_database_id == <<"d", "a", "t", "a", "b", "a", "s", "e", "_", "i", "d">>
S_Status == <<"S", "t", "a", "t", "u", "s">>
S_select == <<"s", "e", "l", "e", "c", "t">>

\* json.dumps on an object that is no dict, list, str, number, bool or None
TypeError ==
    [exc |-> "TypeError", arg |-> "Object of type NotionBlock is not JSON serializable"]

\* Whether a list of elements holds a NotionBlock, at any depth of the
\* "children" and "cells" lists of its elements.
RECURSIVE HoldsNotionBlock(_)
HoldsNotionBlock(list) ==
    \E k \in 1..Len(list) :
        \/ IsNotionBlock(list[k])
        \/ LET content == list[k][list[k][S_type]] IN
           \E key \in {S_children, S_cells} \cap DOMAIN content :
               HoldsNotionBlock(content[key])

\* requests.request(..., json=payload) and _check_response for a payload
\* whose block records are the given list: a payload that still holds a
\* NotionBlock cannot be encoded and nothing is sent; otherwise the status of
\* the answer decides.
SendJson(records, status) ==
    IF HoldsNotionBlock(records) THEN Raise(TypeError)
    ELSE CheckResponse([status_code |-> status, text |-> <<"#">>])

\* The properties handed to _create_new_page_under_database.
NewPageProperties ==
    << NotionPagePropertyInit(S_Status,
                              (S_type :> S_select) @@ (S_select :> (S_name :> S_Status))).value >>

\* The statuses the service answers with in SpecSend.
SendStatuses == {200, 429}

InitSendVars ==
    /\ nPc = "attempt"
    /\ nOperation \in {"update", "append", "create"}
    /\ nBlock \in WireInputs
    /\ nAttempts = 0
    /\ nPayloads = <<>>
    /\ nOutcome = None

\* What follows the request of one attempt of a decorated call: the call
\* returns, an error of the bad-request family is retried up to the last
\* attempt, any other exception leaves the call.
AfterRequest(sent, value) ==
    IF ~sent.raised
    THEN nPc' = "done" /\ nOutcome' = value /\ UNCHANGED nAttempts
    ELSE IF IsBadRequest(sent.value) /\ nAttempts + 1 < MaxAttempts
    THEN nAttempts' = nAttempts + 1 /\ UNCHANGED <<nPc, nOutcome>>
    ELSE nPc' = "raised" /\ nOutcome' = sent.value /\ nAttempts' = nAttempts + 1

\* One attempt of the decorated _update_block(block.id, block)
UpdateBlockAttempt ==
    /\ nPc = "attempt"
    /\ nOperation = "update"
    /\ \E status \in SendStatuses :
          LET converted == ConvertBlockToJson(nBlock)
              payload == converted.json
          IN  /\ nBlock' = converted.block
              /\ nPayloads' = Append(nPayloads, payload)
              /\ AfterRequest(SendJson(<<payload>>, status), None)
    /\ UNCHANGED nOperation
    /\ UNCHANGED othersSend

\* One attempt of the decorated _append_children_to_object(parent_id, [block])
AppendChildrenAttempt ==
    /\ nPc = "attempt"
    /\ nOperation = "append"
    /\ \E status \in SendStatuses :
          LET children == << NotionBlockToDict(nBlock) >>
              payload == (S_children :> children)
          IN  /\ nPayloads' = Append(nPayloads, payload)
              /\ AfterRequest(SendJson(children, status), None)
    /\ UNCHANGED <<nOperation, nBlock>>
    /\ UNCHANGED othersSend

\* One attempt of the decorated
\* _create_new_page_under_database(parent_id, [block], properties)
CreatePageAttempt ==
    /\ nPc = "attempt"
    /\ nOperation = "create"
    /\ \E status \in SendStatuses :
          LET properties_dict ==
                  [name \in { NewPageProperties[k][S_name] : k \in 1..Len(NewPageProperties) } |->
                      NotionPagePropertyToDict(
                          NewPageProperties[CHOOSE k \in 1..Len(NewPageProperties) :
                                                NewPageProperties[k][S_name] = name])]
              converted == ConvertBlockToJson(nBlock)
              children_list == << converted.json >>
              payload == (S_parent :> ((S_type :> S_database_id)
                                       @@ (S_database_id :> <<"d", "1">>)))
                         @@ (S_properties :> properties_dict)
                         @@ (S_children :> children_list)
          IN  /\ nBlock' = converted.block
              /\ nPayloads' = Append(nPayloads, payload)
              /\ AfterRequest(SendJson(children_list, status),
                              << <<"p", "1">>, <<"u", "r", "l", "1">> >>)
    /\ UNCHANGED nOperation
    /\ UNCHANGED othersSend

NextSend == UpdateBlockAttempt \/ AppendChildrenAttempt \/ CreatePageAttempt

----------------------------------------------------------------------------
(* NotionAPI._set_bulleted_list_item_link and NotionAPI._update_block.     *)

\* raise ValueError(f"Could not find {text_to_match} in bullet list")
ValueError(text_to_match) ==
    [exc |-> "ValueError",
     arg |-> <<"Could not find ", text_to_match, " in bullet list">>]

\* A filter that keeps every block.
BulletListBlocksUnfiltered(page_children) == page_children

\* bullet_list_blocks: the children whose type is BULLETED_LIST_ITEM, in order
BulletListBlocks(page_children) ==
    SelectSeq(page_children,
              LAMBDA child : child[S_type] =
                  EnumMember(NotionBlockType,
                             <<"B", "U", "L", "L", "E", "T", "E", "D", "_",
                               "L", "I", "S", "T", "_", "I", "T", "E", "M">>))

\* item.get("plain_text") == text_to_match
RunMatches(item, text_to_match) ==
    S_plain_text \in DOMAIN item /\ item[S_plain_text] = text_to_match

\* The positions <<block, item>> at which the nested loops find a match.
MatchPositions(blocks, text_to_match) ==
    UNION { { <<b, k>> : k \in { k \in 1..Len(blocks[b][S_content][S_text]) :
                  RunMatches(blocks[b][S_content][S_text][k], text_to_match) } } :
            b \in 1..Len(blocks) }

\* The position the nested loops reach first: the first block with a match
\* and the first matching item in it.
FirstMatch(blocks, text_to_match) ==
    CHOOSE m \in MatchPositions(blocks, text_to_match) :
        \A n \in MatchPositions(blocks, text_to_match) :
            m[1] < n[1] \/ (m[1] = n[1] /\ m[2] <= n[2])

\* item["text"]["link"] = {"url": url}
WithLink(item, url) ==
    [item EXCEPT ![S_text] = DictSet(item[S_text], S_link, (S_url :> url))]

\* A body that never replaces the text of the copy.
NewBlockKeepingRuns(block, k, url, replace_only_matched_text) == block

\* The body of the `if` of the inner loop, up to the call of _update_block:
\* new_block is a deep copy of the block taken before the link is set on the
\* item of the original block; only with replace_only_matched_text false is
\* the (linked) item put into the copy, as its whole text.
NewBlock(block, k, url, replace_only_matched_text) ==
    LET new_block == block
        item == WithLink(block[S_content][S_text][k], url)
    IN  IF ~replace_only_matched_text
        THEN [new_block EXCEPT ![S_content] =
                 DictSet(new_block[S_content], S_text, <<item>>)]
        ELSE new_block

----------------------------------------------------------------------------
(* SpecLink: one call of _set_bulleted_list_item_link.                     *)

\* Largest number of blocks the service lists under the page.
MaxBlocks == 2

\* The arguments text_to_match and url.
TextToMatch == <<"C", "l", "i", "c", "k", " ", "h", "e", "r", "e">>
LinkUrl == <<"h", "t", "t", "p", ":", "/", "/", "x">>

S_Other_text == <<"S", "e", "e", " ", "a", "l", "s", "o">>
S_Old_url == <<"h", "t", "t", "p", ":", "/", "/", "o", "l", "d">>
S_annotations == <<"a", "n", "n", "o", "t", "a", "t", "i", "o", "n", "s">>
S_bold == <<"b", "o", "l", "d">>

\* A text run of the service.
TextRun(plain_text, link, bold) ==
    (S_plain_text :> plain_text)
    @@ (S_text :> ((S_content :> plain_text) @@ (S_link :> link)))
    @@ (S_annotations :> (S_bold :> bold))

\* Four runs: two with the text to match (one plain without a link, one bold
\* with a link) and two with another text (without and with a link).
RunM0 == TextRun(TextToMatch, NoneDict, FALSE)
RunM1 == TextRun(TextToMatch, (S_url :> S_Old_url), TRUE)
RunO0 == TextRun(S_Other_text, NoneDict, FALSE)
RunO1 == TextRun(S_Other_text, (S_url :> S_Old_url), FALSE)

\* The text of a block: no run, one run, or some lists of two and three runs.
TextLists ==
    { <<>>, <<RunM0>>, <<RunM1>>, <<RunO0>>, <<RunO1>>,
      <<RunO1, RunM0>>, <<RunM1, RunO1>>, <<RunM1, RunM0>>, <<RunO0, RunO1>>,
      <<RunO1, RunM0, RunM1>> }

\* The block record that is the i-th child of the page.
ChildRecord(i, type_name, text) ==
    (S_object :> S_block)
    @@ (S_id :> <<"b", Digits[i]>>)
    @@ (S_type :> type_name)
    @@ (type_name :> (S_text :> text))
    @@ (S_has_children :> FALSE)

\* The list of children of the given shapes: each a type and a text.
ChildListOf(shape) ==
    [i \in 1..Len(shape) |-> ChildRecord(i, shape[i][1], shape[i][2])]

\* The statuses the service answers a PATCH with in SpecLink.
LinkStatuses == {200, 429, 500}

\* The responses of the service to successive GET requests for the children
\* of the page: first the 429 responses, then the list.
LinkResponses(children, failures, body_results) ==
    [i \in 1..MaxAttempts |->
        IF i <= failures
        THEN [status_code |-> 429, text |-> <<"#">>,
              json |-> (S_object :> <<"e", "r", "r", "o", "r">>)]
        ELSE [status_code |-> 200, text |-> <<"#">>,
              json |-> IF body_results
                       THEN (S_object :> <<"l", "i", "s", "t">>) @@ (S_results :> children)
                       ELSE (S_object :> <<"l", "i", "s", "t">>)]]

\* [NotionBlock(child) for child in records]: the list of the blocks, or the
\* exception of the first record that cannot be decoded.
DecodeBlocks(records) ==
    LET decoded == [i \in 1..Len(records) |-> NotionBlockInit(records[i])]
        failing == { i \in 1..Len(records) : decoded[i].raised }
    IN  IF failing # {}
        THEN Raise(decoded[CHOOSE i \in failing : \A j \in failing : i <= j].value)
        ELSE Return([i \in 1..Len(records) |-> decoded[i].value])

\* The lists of children: up to MaxBlocks blocks, each a bulleted list item
\* or a paragraph.
InitLinkVars ==
    /\ lPc = "start"
    /\ \E n \in 0..MaxBlocks :
          \E shape \in [1..n -> {S_bulleted_list_item, S_paragraph} \X TextLists] :
              lChildren = ChildListOf(shape)
    /\ lGetFailures \in 0..MaxAttempts
    /\ lBodyResults = TRUE
    /\ lGets = 0
    /\ lPauses = 0
    /\ lReplaceOnly \in BOOLEAN
    /\ lNewBlock = None
    /\ lUpdateCalls = 0
    /\ lAttempts = 0
    /\ lPatches = <<>>
    /\ lOutcome = None

\* page_children = [NotionBlock(child) for child in self._get_block_children(page_id)]:
\* the decorated fetch, then the decoding of every record.  An exception of
\* either leaves _set_bulleted_list_item_link.
SetLinkFetch ==
    /\ lPc = "start"
    /\ LET got == GetBlockChildren(LinkResponses(lChildren, lGetFailures, lBodyResults))
           page_children == IF got.outcome.raised THEN got.outcome
                            ELSE DecodeBlocks(got.outcome.value)
       IN  /\ lGets' = got.requests
           /\ lPauses' = lPauses + got.pauses
           /\ IF page_children.raised
              THEN lPc' = "raised" /\ lOutcome' = page_children.value
              ELSE lPc' = "scan" /\ UNCHANGED lOutcome
    /\ UNCHANGED <<lChildren, lGetFailures, lBodyResults, lReplaceOnly, lNewBlock,
                   lUpdateCalls, lAttempts, lPatches>>
    /\ UNCHANGED othersLink

\* The children are scanned: at the first match new_block is built and
\* _update_block is called with it; without a match ValueError is raised.
SetLinkScan ==
    /\ lPc = "scan"
    /\ LET page_children == DecodeBlocks(lChildren).value
           blocks == BulletListBlocks(page_children)
       IN  IF MatchPositions(blocks, TextToMatch) # {}
           THEN LET m == FirstMatch(blocks, TextToMatch) IN
                /\ lNewBlock' = NewBlock(blocks[m[1]], m[2], LinkUrl, lReplaceOnly)
                /\ lUpdateCalls' = lUpdateCalls + 1
                /\ lPc' = "update"
                /\ UNCHANGED lOutcome
           ELSE /\ lOutcome' = ValueError(TextToMatch)
                /\ lPc' = "raised"
                /\ UNCHANGED <<lNewBlock, lUpdateCalls>>
    /\ UNCHANGED <<lChildren, lGetFailures, lBodyResults, lGets, lPauses,
                   lReplaceOnly, lAttempts, lPatches>>
    /\ UNCHANGED othersLink

\* One attempt of the decorated _update_block(new_block.id, new_block): the
\* block is converted, the PATCH is sent and its response checked.  A 200
\* ends the call, and `raise StopIteration` then ends the scan; a failure is
\* followed by a pause, and after the third failure the last error leaves
\* _set_bulleted_list_item_link.
UpdateAttempt ==
    /\ lPc = "update"
    /\ \E status \in LinkStatuses :
          LET converted == ConvertBlockToJson(lNewBlock)
              checked == CheckResponse([status_code |-> status, text |-> <<"#">>])
          IN  /\ lPatches' = Append(lPatches, [block_id |-> lNewBlock[S_id],
                                                payload |-> converted.json])
              /\ lNewBlock' = converted.block
              /\ IF ~checked.raised
                 THEN lPc' = "done" /\ UNCHANGED <<lAttempts, lPauses, lOutcome>>
                 ELSE /\ lAttempts' = lAttempts + 1
                      /\ lPauses' = lPauses + 1
                      /\ IF lAttempts + 1 < MaxAttempts
                         THEN UNCHANGED <<lPc, lOutcome>>
                         ELSE lPc' = "raised" /\ lOutcome' = checked.value
    /\ UNCHANGED <<lChildren, lGetFailures, lBodyResults, lGets, lReplaceOnly,
                   lUpdateCalls>>
    /\ UNCHANGED othersLink

NextLink == SetLinkFetch \/ SetLinkScan \/ UpdateAttempt

----------------------------------------------------------------------------
(* SpecLocal: one call of _set_bulleted_list_item_link against a service   *)
(* whose answer may be malformed: a body without "results", a record       *)
(* without its "type" field or without the field its "type" names.         *)

\* del d[key]
WithoutKey(d, key) == [k \in DOMAIN d \ {key} |-> d[k]]

\* The records of SpecLocal: a bulleted list item with the text to match,
\* one with another text, a paragraph with the text to match, and a bulleted
\* list item that lacks its "type" or its "bulleted_list_item" field.
LocalRecordKinds == {"match", "other", "paragraph", "no_type", "no_payload"}

LocalRecord(i, kind) ==
    LET item == ChildRecord(i, S_bulleted_list_item,
                            IF kind = "other" THEN <<RunO0>> ELSE <<RunO1, RunM0>>)
    IN  IF kind = "paragraph" THEN ChildRecord(i, S_paragraph, <<RunM0>>)
        ELSE IF kind = "no_type" THEN WithoutKey(item, S_type)
        ELSE IF kind = "no_payload" THEN WithoutKey(item, S_bulleted_list_item)
        ELSE item

LocalChildLists ==
    UNION { { [i \in 1..n |-> LocalRecord(i, kinds[i])] :
              kinds \in [1..n -> LocalRecordKinds] } :
            n \in 0..MaxBlocks }

InitLocalVars ==
    /\ lPc = "start"
    /\ lChildren \in LocalChildLists
    /\ lGetFailures \in 0..MaxAttempts
    /\ lBodyResults \in BOOLEAN
    /\ lGets = 0
    /\ lPauses = 0
    /\ lReplaceOnly \in BOOLEAN
    /\ lNewBlock = None
    /\ lUpdateCalls = 0
    /\ lAttempts = 0
    /\ lPatches = <<>>
    /\ lOutcome = None

----------------------------------------------------------------------------
(* SpecTree: one call of _get_all_children on the id of a page, against a  *)
(* service that holds a tree of blocks under it.                           *)

\* Largest number of blocks in the tree under the page.
MaxTreeBlocks == 3

\* The id of the page and the id of the k-th block.
RootId == <<"p", "a", "g", "e">>
BlockId(k) == <<"b", Digits[k]>>
TreeId(k) == IF k = 0 THEN RootId ELSE BlockId(k)

\* The record of the k-th block as the service lists it.
TreeRecord(k, has_children) ==
    (S_object :> S_block)
    @@ (S_id :> BlockId(k))
    @@ (S_type :> S_paragraph)
    @@ (S_paragraph :> (S_text :> << (S_plain_text :> BlockId(k)) >>))
    @@ (S_has_children :> has_children)

\* The numbers of a set in ascending or in descending order.
Ordered(S, descending) ==
    CHOOSE s \in [1..Cardinality(S) -> S] :
        \A i, j \in 1..Cardinality(S) :
            i < j => IF descending THEN s[i] > s[j] ELSE s[i] < s[j]

\* The service whose n blocks have the given parents (0 is the page) and
\* has_children flags, and which lists siblings in the given order.
ServiceOf(n, parent, flags, descending) ==
    [id \in { TreeId(k) : k \in 0..n } |->
        LET p == CHOOSE k \in 0..n : TreeId(k) = id
            order == Ordered({ k \in 1..n : parent[k] = p }, descending)
        IN  [i \in 1..Len(order) |-> TreeRecord(order[i], flags[order[i]])]]

\* The trees of up to MaxTreeBlocks blocks: the parent of a block is the page
\* or a block of a smaller number; a has_children flag need not agree with
\* what the service lists under the block.
Services ==
    UNION { { ServiceOf(n, parent, flags, descending) :
                parent \in { f \in [1..n -> 0..n] : \A k \in 1..n : f[k] < k },
                flags \in [1..n -> BOOLEAN],
                descending \in BOOLEAN } :
            n \in 0..MaxTreeBlocks }

\* The responses of the service to successive GET requests for the children
\* of an id.
TreeResponses(service, failures, id) ==
    [i \in 1..MaxAttempts |->
        IF i <= failures[id]
        THEN [status_code |-> 429, text |-> id, json |-> (S_object :> <<"e", "r", "r", "o", "r">>)]
        ELSE [status_code |-> 200, text |-> id, json |-> (S_results :> service[id])]]

InitTreeVars ==
    /\ gPc = "call"
    /\ gService \in Services
    /\ \E id \in DOMAIN gService, n \in 0..MaxAttempts :
          gFailures = [x \in DOMAIN gService |-> IF x = id THEN n ELSE 0]
    /\ gCallee = RootId
    /\ gStack = <<>>
    /\ gFetches = <<>>
    /\ gOutcome = None

\* children = [NotionBlock(child) for child in self._get_block_children(parent_id)]
\* at the start of a call of _get_all_children.  An error of the fetch leaves
\* every running call.
TreeFetch ==
    /\ gPc = "call"
    /\ LET got == GetBlockChildren(TreeResponses(gService, gFailures, gCallee))
           results == got.outcome.value
       IN  /\ gFetches' = gFetches \o [i \in 1..got.requests |-> gCallee]
           /\ IF got.outcome.raised
              THEN /\ gPc' = "raised"
                   /\ gOutcome' = got.outcome.value
                   /\ gStack' = <<>>
              ELSE /\ gPc' = "loop"
                   /\ gStack' = Append(gStack,
                         [parent_id |-> gCallee,
                          children |-> [i \in 1..Len(results) |->
                                           NotionBlockInit(results[i]).value],
                          i |-> 1])
                   /\ UNCHANGED gOutcome
    /\ UNCHANGED <<gService, gFailures, gCallee>>
    /\ UNCHANGED othersTree

\* One iteration of `for child in children`: a child whose has_children is
\* true starts the call _get_all_children(child.id), any other is passed.
TreeLoop ==
    /\ gPc = "loop"
    /\ LET frame == gStack[Len(gStack)] IN
       /\ frame.i <= Len(frame.children)
       /\ IF frame.children[frame.i][S_has_children]
          THEN /\ gCallee' = frame.children[frame.i][S_id]
               /\ gPc' = "call"
               /\ UNCHANGED gStack
          ELSE /\ gStack' = [gStack EXCEPT ![Len(gStack)].i = frame.i + 1]
               /\ UNCHANGED <<gPc, gCallee>>
    /\ UNCHANGED <<gService, gFailures, gFetches, gOutcome>>
    /\ UNCHANGED othersTree

\* `return children`: the caller, if it is a call of _get_all_children,
\* assigns the list to child.content["children"] and goes on with its loop.
TreeReturn ==
    /\ gPc = "loop"
    /\ LET frame == gStack[Len(gStack)]
           depth == Len(gStack)
       IN  /\ frame.i > Len(frame.children)
           /\ IF depth = 1
              THEN /\ gOutcome' = frame.children
                   /\ gPc' = "returned"
                   /\ gStack' = <<>>
              ELSE LET caller == gStack[depth - 1] IN
                   /\ gStack' = [SubSeq(gStack, 1, depth - 1) EXCEPT ![depth - 1] =
                         [caller EXCEPT
                            !.children[caller.i] =
                                WithContentKey(caller.children[caller.i], S_children,
                                               frame.children),
                            !.i = caller.i + 1]]
                   /\ UNCHANGED <<gPc, gOutcome>>
    /\ UNCHANGED <<gService, gFailures, gCallee, gFetches>>
    /\ UNCHANGED othersTree

NextTree == TreeFetch \/ TreeLoop \/ TreeReturn

----------------------------------------------------------------------------
(* Claims about the retry decorator (SpecRetry).                           *)

\* The i-th response makes the wrapped call fail with an error of the
\* bad-request family.
AttemptFails(i) == rResponses[i].status_code # 200

\* C1: the wrapped call is attempted at most 3 times; a value is returned only
\* from the first response that succeeds, and nothing is attempted after it;
\* when the first 3 responses all fail with bad-request errors, the call ends
\* by raising the error of the 3rd response (its class, status code and
\* message), whatever the 4th response would have been.
C1_RetryCeiling ==
    /\ rRequests <= 3
    /\ rPc = "returned" =>
          /\ ~AttemptFails(rRequests)
          /\ \A j \in 1..(rRequests - 1) : AttemptFails(j)
          /\ rOutcome = rResponses[rRequests].json[S_results]
          /\ ~ENABLED RetryAttempt
    /\ (rPc \in {"exhausted", "returned", "raised"} /\ \A i \in 1..3 : AttemptFails(i)) =>
          /\ rRequests = 3
          /\ rPc # "returned"
          /\ rError = CheckResponse(rResponses[3]).value
          /\ rError.status_code = rResponses[3].status_code
          /\ rError.message[2] = rResponses[3].text
          /\ IsBadRequest(rError)
          /\ rPc = "raised" => rOutcome = rError
          /\ ~ENABLED RetryAttempt

\* Three failures with three different statuses, a fourth response that would
\* have succeeded, and the third error raised to the caller.
C1_Witness ==
    /\ rPc = "raised"
    /\ rRequests = 3
    /\ rResponses[1].status_code = 429
    /\ rResponses[2].status_code = 500
    /\ rResponses[3].status_code = 400
    /\ rResponses[4].status_code = 200
    /\ S_results \in DOMAIN rResponses[4].json
    /\ rOutcome.exc = "BadPayloadException"
    /\ rOutcome.message[2] = rResponses[3].text

----------------------------------------------------------------------------
(* Claims about _get_database_pages (SpecPages).                           *)

\* The page records among the results of the database's response pages 1..n.
PageRecords(n) ==
    UNION { { pService[i][j] : j \in { j \in 1..Len(pService[i]) :
                  pService[i][j][S_object] = S_page } } : i \in 1..n }

\* The decoded body of the response to the k-th query sent.
ResponseTo(k) == DatabaseQueryResponse(pService, pQueries[k]).json

\* The first query carries no cursor and every later one the next_cursor of
\* the response before it.
CursorsChained ==
    /\ Len(pQueries) >= 1 => S_start_cursor \notin DOMAIN pQueries[1]
    /\ \A k \in 2..Len(pQueries) :
          /\ S_start_cursor \in DOMAIN pQueries[k]
          /\ pQueries[k][S_start_cursor] = ResponseTo(k - 1)[S_next_cursor]

\* The mapping holds exactly the page records of all response pages, each
\* under its id and with every field the service gave it.
MappingComplete(mapping) ==
    /\ DOMAIN mapping = { r[S_id] : r \in PageRecords(Len(pService)) }
    /\ \A r \in PageRecords(Len(pService)) :
          \A key \in DOMAIN r : mapping[r[S_id]][key] = r[key]

\* C2 as stated: against a database of N response pages the operation issues
\* exactly N queries, the first without a cursor and each later one with the
\* preceding next_cursor, and returns a mapping that holds every page record
\* under its id.
C2_ExactlyNQueries ==
    pPc \in {"returned", "raised"} =>
        /\ Len(pQueries) = Len(pService)
        /\ CursorsChained
        /\ pPc = "returned"
        /\ MappingComplete(pOutcome)

\* C2 as amended: at most N queries are issued, the first without a cursor and
\* each later one with the preceding next_cursor; when the operation returns
\* it has issued exactly N queries and the mapping holds every page record
\* under its id; when the title extraction of a record fails, the operation
\* stops at the response holding the first such record and that failure
\* reaches the caller instead of a mapping.
C2_QueriesUntilFailure ==
    /\ Len(pQueries) <= Len(pService)
    /\ CursorsChained
    /\ \A k \in 1..Len(pQueries) : ResponseTo(k)[S_results] = pService[k]
    /\ pPc = "returned" =>
          /\ Len(pQueries) = Len(pService)
          /\ MappingComplete(pOutcome)
    /\ pPc = "raised" =>
          /\ \A r \in PageRecords(Len(pQueries) - 1) : ~ExtractTitle(r).raised
          /\ \E j \in 1..Len(pService[Len(pQueries)]) :
                LET r == pService[Len(pQueries)][j] IN
                /\ r[S_object] = S_page
                /\ ExtractTitle(r).raised
                /\ pOutcome = ExtractTitle(r).value
                /\ \A h \in 1..(j - 1) :
                      pService[Len(pQueries)][h][S_object] = S_page
                         => ~ExtractTitle(pService[Len(pQueries)][h]).raised
    /\ pPc = "loop" =>
          \A r \in PageRecords(Len(pQueries)) : ~ExtractTitle(r).raised

\* Three response pages have been fetched with three queries and the mapping
\* returned holds at least four page records.
C2_Witness ==
    /\ pPc = "returned"
    /\ Len(pService) = 3
    /\ Len(pQueries) = 3
    /\ Cardinality(DOMAIN pOutcome) >= 4

\* The title text a record holds under a key.
TitleTextUnder(record, key) ==
    record[S_properties][key][S_title][1][S_text][S_content]

\* C3: every stored record has as its title the text under the BOM-prefixed
\* key when it has that key, and otherwise the text under the clean key; the
\* operation fails only at a response holding a page record with neither key,
\* and then with the lookup failure of the clean key.
C3_TitleExtraction ==
    /\ \A id \in DOMAIN pPages :
          LET props == pPages[id][S_properties] IN
          /\ S_BOM_Name \in DOMAIN props
                => pPages[id][S_title] = TitleTextUnder(pPages[id], S_BOM_Name)
          /\ (S_BOM_Name \notin DOMAIN props /\ S_Name \in DOMAIN props)
                => pPages[id][S_title] = TitleTextUnder(pPages[id], S_Name)
    /\ pPc = "raised" =>
          /\ pOutcome = KeyError(S_Name)
          /\ \E j \in 1..Len(pService[Len(pQueries)]) :
                LET r == pService[Len(pQueries)][j] IN
                /\ r[S_object] = S_page
                /\ S_BOM_Name \notin DOMAIN r[S_properties]
                /\ S_Name \notin DOMAIN r[S_properties]

----------------------------------------------------------------------------
(* Claims about _set_bulleted_list_item_link (SpecLink).                   *)

\* The text runs of a block record of the service.
RunsOf(record) == record[record[S_type]][S_text]

\* The positions <<child, run>> of the runs, in bulleted-list-item children
\* of the page, whose plain text is the text to match.
ServiceMatches ==
    UNION { { <<i, k>> : k \in { k \in 1..Len(RunsOf(lChildren[i])) :
                  RunsOf(lChildren[i])[k][S_plain_text] = TextToMatch } } :
            i \in { i \in 1..Len(lChildren) :
                      lChildren[i][S_type] = S_bulleted_list_item } }

\* The first of them in the order the service lists blocks and runs.
FirstServiceMatch ==
    CHOOSE m \in ServiceMatches :
        \A n \in ServiceMatches : m[1] < n[1] \/ (m[1] = n[1] /\ m[2] <= n[2])

\* The text runs a PATCH request carries for the block record it updates.
PatchedRuns(patch, record) == patch.payload[record[S_type]][S_text]

\* The children have been listed and scanned.
Scanned ==
    \/ lPc \in {"update", "done"}
    \/ lPc = "raised" /\ (lUpdateCalls = 1 \/ lOutcome.exc = "ValueError")

\* C4: with replace_only_matched_text false, every update issued targets the
\* block of the first matching run and carries as the block's text exactly
\* one run: the matched run, with link.url the given url.
C4_ReplacesTextWithMatchedRun ==
    (~lReplaceOnly /\ lPatches # <<>>) =>
        /\ ServiceMatches # {}
        /\ \A n \in 1..Len(lPatches) :
              LET record == lChildren[FirstServiceMatch[1]]
                  run == RunsOf(record)[FirstServiceMatch[2]]
                  sent == PatchedRuns(lPatches[n], record)
              IN  /\ lPatches[n].block_id = record[S_id]
                  /\ Len(sent) = 1
                  /\ sent[1][S_plain_text] = TextToMatch
                  /\ sent[1][S_text][S_link] = (S_url :> LinkUrl)
                  /\ sent[1][S_text][S_content] = run[S_text][S_content]
                  /\ sent[1][S_annotations] = run[S_annotations]

\* With replace_only_matched_text false an update has been sent for the
\* second block, whose matching run is its second run.
C4_Witness ==
    /\ ~lReplaceOnly
    /\ lPc = "done"
    /\ Len(lPatches) = 1
    /\ ServiceMatches # {}
    /\ FirstServiceMatch = <<2, 2>>

\* C5: with replace_only_matched_text true, every update issued targets the
\* block of the first matching run and carries all of that block's runs in
\* their order, the matched run with link.url the given url and every other
\* run as it was.
C5_LinksMatchedRunOnly ==
    (lReplaceOnly /\ lPatches # <<>>) =>
        /\ ServiceMatches # {}
        /\ \A n \in 1..Len(lPatches) :
              LET record == lChildren[FirstServiceMatch[1]]
                  runs == RunsOf(record)
                  sent == PatchedRuns(lPatches[n], record)
              IN  /\ lPatches[n].block_id = record[S_id]
                  /\ Len(sent) = Len(runs)
                  /\ \A j \in 1..Len(runs) :
                        IF j = FirstServiceMatch[2]
                        THEN /\ sent[j][S_text][S_link] = (S_url :> LinkUrl)
                             /\ sent[j][S_plain_text] = runs[j][S_plain_text]
                             /\ sent[j][S_annotations] = runs[j][S_annotations]
                        ELSE sent[j] = runs[j]

\* C6: one invocation calls _update_block at most once: once, for the block
\* of the first matching run in service order, when a bulleted-list-item child
\* holds a run with the text to match, however many runs or blocks match; and
\* not at all when none does (a match in a block of another type does not
\* count): then no PATCH is sent and ValueError naming the text is raised.
\* The PATCH requests of the one update (the first and its retries) all carry
\* the same block id and payload.
C6_AtMostOneUpdate ==
    /\ lUpdateCalls <= 1
    /\ Len(lPatches) <= 3
    /\ lUpdateCalls = 0 => lPatches = <<>>
    /\ \A n \in 1..Len(lPatches) : lPatches[n] = lPatches[1]
    /\ (Scanned /\ ServiceMatches # {}) =>
          /\ lUpdateCalls = 1
          /\ lNewBlock[S_id] = lChildren[FirstServiceMatch[1]][S_id]
          /\ \A n \in 1..Len(lPatches) :
                lPatches[n].block_id = lChildren[FirstServiceMatch[1]][S_id]
          /\ lPc = "done" => Len(lPatches) >= 1
    /\ (Scanned /\ ServiceMatches = {}) =>
          /\ lUpdateCalls = 0
          /\ lPc = "raised"
          /\ lOutcome = ValueError(TextToMatch)
          /\ lOutcome.arg[2] = TextToMatch

\* A paragraph with a matching run comes first and a bulleted list item with
\* two matching runs second; one update has been made, for the second block.
C6_Witness ==
    /\ lPc = "done"
    /\ lUpdateCalls = 1
    /\ Len(lChildren) = 2
    /\ lChildren[1][S_type] = S_paragraph
    /\ \E k \in 1..Len(RunsOf(lChildren[1])) :
          RunsOf(lChildren[1])[k][S_plain_text] = TextToMatch
    /\ Cardinality(ServiceMatches) = 2
    /\ lPatches[1].block_id = lChildren[2][S_id]

----------------------------------------------------------------------------
(* Claims about _convert_block_to_json (SpecWire).                         *)

\* toWirePayload as section 4.4 words it: each of the keys "children" and
\* "cells" that the content holds gets its own list, in which every element
\* that is a NotionBlock is converted by the same rule and every other
\* element is kept; the content is then wrapped under the type tag.
RECURSIVE ToWirePayloadPerKey(_)
ToWirePayloadPerKey(block) ==
    LET content == block[S_content]
        Normalized(list) ==
            [k \in 1..Len(list) |->
                IF IsNotionBlock(list[k]) THEN ToWirePayloadPerKey(list[k])
                ELSE list[k]]
        withChildren ==
            IF S_children \in DOMAIN content
            THEN [content EXCEPT ![S_children] = Normalized(content[S_children])]
            ELSE content
        withCells ==
            IF S_cells \in DOMAIN content
            THEN [withChildren EXCEPT ![S_cells] = Normalized(content[S_cells])]
            ELSE withChildren
    IN  NotionBlockToDict([block EXCEPT ![S_content] = withCells])

\* C7: applying the conversion to a block twice, with nothing else touching
\* the block in between, yields the output of applying it once.
C7_Idempotent ==
    Len(wOutputs) >= 2 => wOutputs[2] = wOutputs[1]

\* C8: in the output of the conversion each of "children" and "cells" that the
\* block's content held has the length and order it had, with every
\* NotionBlock replaced by its wire record and every wire record kept, and
\* the two lists share no element.
C8_NormalizesCollections ==
    Len(wOutputs) >= 1 =>
        LET before == wInput[S_content]
            after == wOutputs[1][wInput[S_type_name]]
        IN  /\ \A key \in {S_children, S_cells} \cap DOMAIN before :
                  /\ key \in DOMAIN after
                  /\ Len(after[key]) = Len(before[key])
                  /\ \A k \in 1..Len(before[key]) :
                        /\ ~IsNotionBlock(after[key][k])
                        /\ after[key][k] =
                              IF IsNotionBlock(before[key][k])
                              THEN ToWirePayloadPerKey(before[key][k])
                              ELSE before[key][k]
            /\ (S_children \in DOMAIN before /\ S_cells \in DOMAIN before) =>
                  \A k \in 1..Len(after[S_children]), h \in 1..Len(after[S_cells]) :
                      after[S_children][k] # after[S_cells][h]

----------------------------------------------------------------------------
(* Claims about classify, decode and encode (SpecTyping).                  *)

\* The member of enum that a tag names when letter case is ignored, and the
\* OTHER member when it names none.
OwnMember(enum, tag) ==
    IF \E i \in 1..Len(enum) :
          enum[i].name # S_OTHER /\ StrLower(enum[i].name) = StrLower(tag)
    THEN enum[CHOOSE i \in 1..Len(enum) :
                 enum[i].name # S_OTHER /\ StrLower(enum[i].name) = StrLower(tag)]
    ELSE EnumMember(enum, S_OTHER)

\* Whether a record holds its type-tag field and the payload field it names.
WellFormedRecord(r) == S_type \in DOMAIN r /\ r[S_type] \in DOMAIN r

\* C9: decode followed by encode of a minimal record (recognized or
\* unrecognized tag, any letter case) yields a record whose type field is the
\* original tag string and whose payload is the original payload under that
\* same key; a block record also keeps its object field, and the encoded
\* record has no other key.  Decode fails on no well-formed record.
C9_RoundTrip ==
    /\ tPc = "raised" => ~WellFormedRecord(tRecord)
    /\ tPc = "encoded" =>
          /\ WellFormedRecord(tRecord)
          /\ tEncoded[S_type] = tRecord[S_type]
          /\ tRecord[S_type] \in DOMAIN tEncoded
          /\ tEncoded[tRecord[S_type]] = tRecord[tRecord[S_type]]
          /\ tKind = "property" => DOMAIN tEncoded = {S_type, tRecord[S_type]}
          /\ tKind = "block" =>
                /\ DOMAIN tEncoded = {S_object, S_type, tRecord[S_type]}
                /\ tEncoded[S_object] = tRecord[S_object]

\* A record with an unrecognized tag that is not in lower case has been
\* decoded and encoded.
C9_Witness ==
    /\ tPc = "encoded"
    /\ tRecord[S_type] # StrLower(tRecord[S_type])
    /\ tInstance[S_type].name = S_OTHER

\* C10: every tag of the recognized property set (11 tags) and of the
\* recognized block set (10 tags) is classified as its own member whatever
\* its letter case, every other string as OTHER, and classification never
\* fails.
C10_ClassifyTotal ==
    /\ Cardinality({i \in 1..Len(NotionPagePropertyType) :
                       NotionPagePropertyType[i].name # S_OTHER}) = 11
    /\ Cardinality({i \in 1..Len(NotionBlockType) :
                       NotionBlockType[i].name # S_OTHER}) = 10
    /\ tPc = "start" => ENABLED (ClassifyProperty \/ ClassifyBlock)
    /\ tPc = "classified" =>
          tMember = OwnMember(IF tKind = "property" THEN NotionPagePropertyType
                              ELSE NotionBlockType, tTag)

\* A recognized block tag that is not in lower case has been classified as a
\* member other than OTHER.
C10_Witness ==
    /\ tPc = "classified"
    /\ tKind = "block"
    /\ tTag # StrLower(tTag)
    /\ tMember.name # S_OTHER

----------------------------------------------------------------------------
(* Claims about _check_response (SpecStatus).                              *)

\* C11: a response of status 200 raises nothing; 429 raises
\* ExceededRateLimitException, 400 BadPayloadException, 401 and 403
\* UnauthorizedException, every status from 500 up ServerSideException, and
\* every other status BadRequestException itself; whatever is raised is of
\* the bad-request family and carries the status code of the response.
C11_StatusTaxonomy ==
    sPc = "checked" =>
        LET code == sResponse.status_code
            class == IF code = 429 THEN "ExceededRateLimitException"
                     ELSE IF code = 400 THEN "BadPayloadException"
                     ELSE IF code = 401 \/ code = 403 THEN "UnauthorizedException"
                     ELSE IF code >= 500 THEN "ServerSideException"
                     ELSE "BadRequestException"
        IN  /\ sChecked.raised <=> code # 200
            /\ sChecked.raised =>
                  /\ sChecked.value.exc = class
                  /\ IsBadRequest(sChecked.value)
                  /\ sChecked.value.status_code = code

\* A 401 has been classified as unauthorized.
C11_Witness ==
    /\ sPc = "checked"
    /\ sResponse.status_code = 401
    /\ sChecked.raised
    /\ sChecked.value.exc = "UnauthorizedException"
    /\ sChecked.value.status_code = 401

----------------------------------------------------------------------------
(* Claims about _get_all_children (SpecTree).                              *)

\* The tree the service holds under an id, as blocks: the children it lists,
\* in its order, each block with a true has_children flag holding under
\* content["children"] the tree the service holds under that block.
RECURSIVE ServiceTree(_)
ServiceTree(id) ==
    [k \in 1..Len(gService[id]) |->
        LET record == gService[id][k]
            content == IF record[S_has_children]
                       THEN record[record[S_type]] @@ (S_children :> ServiceTree(record[S_id]))
                       ELSE record[record[S_type]]
        IN  (S_class :> "NotionBlock")
            @@ (S_object :> record[S_object])
            @@ (S_id :> record[S_id])
            @@ (S_type_name :> record[S_type])
            @@ (S_type :> EnumMember(NotionBlockType, StrUpper(record[S_type])))
            @@ (S_content :> content)
            @@ (S_has_children :> record[S_has_children])]

\* The ids whose children have to be fetched for the tree under an id: the
\* id and, under it, every listed block with a true has_children flag.
RECURSIVE IdsToFetch(_)
IdsToFetch(id) ==
    {id} \cup UNION { IdsToFetch(gService[id][k][S_id]) :
                        k \in { k \in 1..Len(gService[id]) :
                                  gService[id][k][S_has_children] } }

\* The blocks of a returned list, at every depth.
RECURSIVE BlocksIn(_)
BlocksIn(list) ==
    UNION { {list[k]} \cup (IF S_children \in DOMAIN list[k][S_content]
                            THEN BlocksIn(list[k][S_content][S_children])
                            ELSE {}) :
            k \in 1..Len(list) }

\* C12: the list returned for the page is the service's tree: at every level
\* the blocks the service lists for the parent, in the service's order; a
\* block whose has_children is true holds under content["children"] the
\* expanded list of the blocks under it; a block whose has_children is false
\* has no "children" key in its content and no request was made for its
\* children.
C12_MirrorsServiceTree ==
    gPc = "returned" =>
        /\ gOutcome = ServiceTree(RootId)
        /\ { gFetches[i] : i \in 1..Len(gFetches) } = IdsToFetch(RootId)
        /\ \A block \in BlocksIn(gOutcome) :
              IF block[S_has_children]
              THEN /\ S_children \in DOMAIN block[S_content]
                   /\ Len(block[S_content][S_children]) = Len(gService[block[S_id]])
                   /\ \A k \in 1..Len(gService[block[S_id]]) :
                         block[S_content][S_children][k][S_id] =
                             gService[block[S_id]][k][S_id]
              ELSE /\ S_children \notin DOMAIN block[S_content]
                   /\ \A i \in 1..Len(gFetches) : gFetches[i] # block[S_id]

\* A tree of three levels has been returned: the page lists blocks 3 and 1
\* in this order, block 1 holds block 2, and block 3, whose has_children is
\* false, was not asked about.
C12_Witness ==
    /\ gPc = "returned"
    /\ Len(gOutcome) = 2
    /\ gOutcome[1][S_id] = BlockId(3)
    /\ ~gOutcome[1][S_has_children]
    /\ gOutcome[2][S_id] = BlockId(1)
    /\ gOutcome[2][S_has_children]
    /\ Len(gOutcome[2][S_content][S_children]) = 1
    /\ gOutcome[2][S_content][S_children][1][S_id] = BlockId(2)
    /\ gOutcome[2][S_content][S_children][1][S_has_children]
    /\ gOutcome[2][S_content][S_children][1][S_content][S_children] = <<>>

----------------------------------------------------------------------------
(* Claims about local failures (SpecLocal).                                *)

\* The answer of the service to the GET is a list.
ListAnswered == lGetFailures < MaxAttempts /\ lBodyResults

\* The records of the list that cannot be decoded, and the field the first
\* of them lacks.
Undecodable ==
    { i \in 1..Len(lChildren) :
        S_type \notin DOMAIN lChildren[i]
        \/ lChildren[i][S_type] \notin DOMAIN lChildren[i] }

MissingField ==
    LET i == CHOOSE i \in Undecodable : \A j \in Undecodable : i <= j IN
    IF S_type \notin DOMAIN lChildren[i] THEN S_type ELSE lChildren[i][S_type]

\* A bulleted list item of the list holds a run with the text to match.
LocalMatch ==
    \E i \in 1..Len(lChildren) :
        /\ lChildren[i][S_type] = S_bulleted_list_item
        /\ \E k \in 1..Len(lChildren[i][S_bulleted_list_item][S_text]) :
              lChildren[i][S_bulleted_list_item][S_text][k][S_plain_text] = TextToMatch

\* C13: a lookup failure on what the service sent (a body without "results",
\* read inside the decorated fetch; a record without its type tag or without
\* the field the tag names) and the ValueError of a scan without a match
\* reach the caller as they are, at once: the request whose answer failed is
\* the last one sent, it was sent once, the only pauses are those that
\* followed the 429 answers before it, and no update is sent.
C13_LocalFailuresNotRetried ==
    /\ (lPc # "start" /\ lGetFailures < MaxAttempts /\ ~lBodyResults) =>
          /\ lPc = "raised"
          /\ lOutcome = KeyError(S_results)
    /\ (lPc # "start" /\ ListAnswered /\ Undecodable # {}) =>
          /\ lPc = "raised"
          /\ lOutcome = KeyError(MissingField)
    /\ (lPc \notin {"start", "scan"} /\ ListAnswered /\ Undecodable = {} /\ ~LocalMatch) =>
          /\ lPc = "raised"
          /\ lOutcome = ValueError(TextToMatch)
    /\ (lPc = "raised" /\ lOutcome.exc \in {"KeyError", "ValueError"}) =>
          /\ lGets = lGetFailures + 1
          /\ lPauses = lGetFailures
          /\ lUpdateCalls = 0
          /\ lPatches = <<>>
          /\ ~ENABLED NextLink

\* After two 429 answers the body of the third lacks "results": the
\* KeyError left the decorated fetch after three requests and two pauses.
C13_Witness ==
    /\ lPc = "raised"
    /\ lGetFailures = 2
    /\ ~lBodyResults
    /\ lOutcome = KeyError(S_results)
    /\ lGets = 3
    /\ lPauses = 2

----------------------------------------------------------------------------
(* Claims about _get_database_pages and error statuses (SpecQuery).        *)

\* The last query sent is the one the service answered with an error status.
QueryRefused == pFailAt >= 1 /\ Len(pQueries) >= pFailAt

\* C14: a query answered with a status other than 200 is classified and
\* retried: when the call ends with the refused query as its last one, what
\* reaches the caller is the error of the bad-request family for that
\* status, after 3 attempts of that query; the body of the answer is not
\* read as a page of results.
C14_QueryFailuresRetried ==
    (QueryRefused /\ pPc # "loop") =>
        /\ pPc = "raised"
        /\ IsBadRequest(pOutcome)
        /\ pOutcome.status_code = pFailStatus
        /\ Cardinality({ k \in 1..Len(pQueries) : pQueries[k] = pQueries[pFailAt] })
              = MaxAttempts

----------------------------------------------------------------------------
(* Claims about the order of the retry events (SpecRetry).                 *)

\* The number of events of a kind so far.
EventCount(kind) == Cardinality({ k \in 1..Len(rEvents) : rEvents[k][1] = kind })

\* C15: every failed attempt is followed by one warning, and a pause is
\* taken only between two attempts: a call that has ended made one pause
\* less than attempts, so after 3 failed attempts there are 3 warnings and 2
\* pauses, and the last event before the error is raised is the warning of
\* the 3rd failure.
C15_PausesOnlyBetweenAttempts ==
    /\ rPc \in {"returned", "raised"} =>
          /\ EventCount("warning") =
                Cardinality({ i \in 1..rRequests :
                                LET r == GetBlockChildrenBody(rResponses[i])
                                IN  r.raised /\ IsBadRequest(r.value) })
          /\ EventCount("sleep") = EventCount("call") - 1
    /\ (rPc = "raised" /\ rRequests = MaxAttempts /\ IsBadRequest(rOutcome)) =>
          /\ EventCount("warning") = 3
          /\ EventCount("sleep") = 2
          /\ rEvents[Len(rEvents)][1] = "warning"

----------------------------------------------------------------------------
(* Claims about the payloads of the writing operations (SpecSend).         *)

\* The block records a payload carries: the payload itself for an update,
\* its "children" list for an append or a create.
RecordsOf(payload) ==
    IF nOperation = "update" THEN <<payload>> ELSE payload[S_children]

\* C16: whatever lists of NotionBlock instances and wire records the block
\* holds under "children" and "cells", every payload the update, append and
\* create operations hand to the request holds wire records only, at every
\* depth, so that it is encoded and sent.
C16_PayloadsHoldWireRecordsOnly ==
    /\ \A n \in 1..Len(nPayloads) : ~HoldsNotionBlock(RecordsOf(nPayloads[n]))
    /\ nPc = "raised" => nOutcome.exc # "TypeError"

----------------------------------------------------------------------------
(* Claims about the termination of _get_database_pages (SpecPagesFair).    *)

\* The response with has_more false, the last of the database, has been
\* received.
LastAnswered == Len(pQueries) = Len(pService)

\* The call has returned the mapping it accumulated.
ReturnedMapping == IF pPc = "returned" THEN pOutcome = pPages ELSE FALSE

\* What reached the caller is what the call is to hand over: the mapping
\* accumulated from all the responses or, raised, the failure of the title
\* extraction of a record.
OutcomeInOrder ==
    IF pPc = "returned"
    THEN LastAnswered /\ pOutcome = pPages /\ MappingComplete(pOutcome)
    ELSE IF pPc = "raised"
    THEN \E r \in PageRecords(Len(pQueries)) :
             ExtractTitle(r).raised /\ pOutcome = ExtractTitle(r).value
    ELSE TRUE

\* No query follows the response with has_more false.
NoQueryAfterLast == IF LastAnswered THEN ~ENABLED FetchIteration ELSE TRUE

\* C17 as stated: once the service has answered a query with has_more false,
\* the call ends by returning the accumulated mapping.
C17_ReturnsMapping == (LastAnswered /\ pPc # "loop") => ReturnedMapping

\* C17 as amended: no query follows the response with has_more false, and the
\* call ends: it returns the mapping accumulated from all the responses, or
\* the failure of a title extraction in one of them reaches the caller.
C17_EndsAfterLastResponse ==
    /\ []NoQueryAfterLast
    /\ []OutcomeInOrder
    /\ <>(pPc \in {"returned", "raised"})

\* After a second response with has_more false and no results, the mapping
\* built from the first response has been returned.
C17_Witness ==
    /\ pPc = "returned"
    /\ Len(pService) = 2
    /\ Len(pQueries) = 2
    /\ pService[2] = <<>>
    /\ pOutcome = pPages
    /\ Cardinality(DOMAIN pOutcome) = 2

----------------------------------------------------------------------------

vars == <<varsTyping, varsRetry, varsPages, varsWire, varsLink, varsStatus, varsTree, varsSend>>

\* The parts of the state a specification does not use stay as they are here.
IdleTyping ==
    /\ tPc = "idle" /\ tTag = None /\ tKind = None /\ tRecord = None
    /\ tMember = None /\ tInstance = None /\ tEncoded = None /\ tError = None

IdleRetry ==
    /\ rPc = "idle" /\ rResponses = <<>> /\ rRequests = 0 /\ rLoop = 0
    /\ rError = None /\ rOutcome = None /\ rEvents = <<>>

IdlePages ==
    /\ pPc = "idle" /\ pService = <<>> /\ pFailAt = 0 /\ pFailStatus = 200
    /\ pPages = <<>> /\ pHasNext = FALSE
    /\ pCursor = None /\ pQueries = <<>> /\ pOutcome = <<>>

IdleWire == wInput = None /\ wBlock = None /\ wOutputs = <<>>

IdleLink ==
    /\ lPc = "idle" /\ lChildren = <<>> /\ lGetFailures = 0 /\ lBodyResults = FALSE
    /\ lGets = 0 /\ lPauses = 0 /\ lReplaceOnly = FALSE /\ lNewBlock = None
    /\ lUpdateCalls = 0 /\ lAttempts = 0 /\ lPatches = <<>> /\ lOutcome = None

IdleStatus ==
    /\ sPc = "idle" /\ sResponse = None /\ sChecked = None

IdleTree ==
    /\ gPc = "idle" /\ gService = <<>> /\ gFailures = <<>> /\ gCallee = None
    /\ gStack = <<>> /\ gFetches = <<>> /\ gOutcome = None

IdleSend ==
    /\ nPc = "idle" /\ nOperation = "none" /\ nBlock = None /\ nAttempts = 0
    /\ nPayloads = <<>> /\ nOutcome = None

InitTyping == InitTypingVars /\ IdleRetry /\ IdlePages /\ IdleWire /\ IdleLink /\ IdleStatus /\ IdleTree /\ IdleSend
SpecTyping == InitTyping /\ [][NextTyping]_vars

InitRetry == InitRetryVars /\ IdleTyping /\ IdlePages /\ IdleWire /\ IdleLink /\ IdleStatus /\ IdleTree /\ IdleSend
SpecRetry == InitRetry /\ [][NextRetry]_vars

InitPages == InitPagesVars /\ IdleTyping /\ IdleRetry /\ IdleWire /\ IdleLink /\ IdleStatus /\ IdleTree /\ IdleSend
SpecPages == InitPages /\ [][NextPages]_vars

\* The call runs on: it is one thread and nothing suspends it between two
\* steps.  Every step sends a query or ends the call.
SpecPagesFair ==
    InitPages /\ [][NextPages]_vars /\ WF_<<pPc, Len(pQueries)>>(NextPages)

InitWire == InitWireVars /\ IdleTyping /\ IdleRetry /\ IdlePages /\ IdleLink /\ IdleStatus /\ IdleTree /\ IdleSend
SpecWire == InitWire /\ [][NextWire]_vars

InitLink == InitLinkVars /\ IdleTyping /\ IdleRetry /\ IdlePages /\ IdleWire /\ IdleStatus /\ IdleTree /\ IdleSend
SpecLink == InitLink /\ [][NextLink]_vars

InitStatus == InitStatusVars /\ IdleTyping /\ IdleRetry /\ IdlePages /\ IdleWire /\ IdleLink /\ IdleTree /\ IdleSend
SpecStatus == InitStatus /\ [][NextStatus]_vars

InitTree == InitTreeVars /\ IdleTyping /\ IdleRetry /\ IdlePages /\ IdleWire /\ IdleLink /\ IdleStatus /\ IdleSend
SpecTree == InitTree /\ [][NextTree]_vars

InitLocal == InitLocalVars /\ IdleTyping /\ IdleRetry /\ IdlePages /\ IdleWire /\ IdleStatus /\ IdleTree /\ IdleSend
SpecLocal == InitLocal /\ [][NextLink]_vars

InitQuery == InitQueryVars /\ IdleTyping /\ IdleRetry /\ IdleWire /\ IdleLink /\ IdleStatus /\ IdleTree /\ IdleSend
SpecQuery == InitQuery /\ [][NextPages]_vars

InitSend == InitSendVars /\ IdleTyping /\ IdleRetry /\ IdlePages /\ IdleWire /\ IdleLink /\ IdleStatus /\ IdleTree
SpecSend == InitSend /\ [][NextSend]_vars

====
